---- MODULE Spec2Model ----
\* Terminal sessions (backend/terminal.ts) and the compose stack orchestrator
\* (backend/stack.ts) of dockge: the process-wide terminal registry, the
\* lifecycle commands run through Terminal.exec, and the status classifier.
EXTENDS Integers, Sequences, FiniteSets, TLC

VARIABLES
    terminals,      \* every Terminal instance constructed so far, by instance number
    terminalMap,    \* Terminal.terminalMap: name -> registered instance, 0 for none
    ops,            \* per socket, the asynchronous request it has in flight
    connected,      \* sockets whose transport reports them connected
    files,          \* what exists on disk: global.env, the stack directory, its .env
    emitted,        \* socket.emitAgent calls made by the last handler that ran
    composeStack,   \* statusConvert's argument: the Status of one `docker compose ls` row
    composeStatus,  \* what getSingleComposeStatus returns: null or the containers' Status
    converted,      \* statusConvert's result, "pending" before the call
    theStack,       \* the Stack object a save() is running on, and how far it is
    otherStack,     \* a second Stack object of the same name with a save() of its own
    filenameList,   \* the directories of the stacks directory that hold a compose file
    composeList,    \* what `docker compose ls --all --format json` prints now
    managedStackList, \* Stack.managedStackList: name -> the status of the cached Stack
    listing,        \* the uncached getStackList in flight, or the last one that returned
    returned,       \* what the last getStack returned or threw
    derived         \* two terminal requests and the terminal names derived for them

sessionVars == <<terminals, terminalMap, ops, connected, files, emitted>>

statusVars == <<composeStack, composeStatus, converted>>

stackListVars == <<filenameList, composeList, managedStackList, listing, returned>>

vars == <<terminals, terminalMap, ops, connected, files, emitted,
          composeStack, composeStatus, converted, theStack, otherStack,
          filenameList, composeList, managedStackList, listing, returned, derived>>

-----------------------------------------------------------------------------
\* Strings, as JavaScript's String methods compute them.

\* NaN is no count: it stands below every number a count can take, so that
\* `count === NaN` is false as in JavaScript.
NaN == 0 - 1
undefined == "undefined"
TypeError == "TypeError"

Whitespace == {" ", "\t", "\n"}

charAt(s, i) == SubSeq(s, i, i)

startsWith(s, p) == Len(s) >= Len(p) /\ SubSeq(s, 1, Len(p)) = p

includes(s, p) ==
    \E i \in 1..(Len(s) + 1 - Len(p)) : SubSeq(s, i, i + Len(p) - 1) = p

\* Position of the first occurrence of the one-character separator, 0 if none.
indexOf(s, sep) ==
    IF \E i \in 1..Len(s) : charAt(s, i) = sep
    THEN CHOOSE i \in 1..Len(s) :
            /\ charAt(s, i) = sep
            /\ \A j \in 1..(i - 1) : charAt(s, j) # sep
    ELSE 0

\* s.split(sep)[0]
splitFirst(s, sep) ==
    IF indexOf(s, sep) = 0 THEN s ELSE SubSeq(s, 1, indexOf(s, sep) - 1)

\* s.split(sep)[1]: undefined when sep does not occur in s.
splitSecond(s, sep) ==
    IF indexOf(s, sep) = 0 THEN undefined
    ELSE splitFirst(SubSeq(s, indexOf(s, sep) + 1, Len(s)), sep)

trim(s) ==
    LET keep == {i \in 1..Len(s) : charAt(s, i) \notin Whitespace}
    IN  IF keep = {} THEN ""
        ELSE LET lo == CHOOSE i \in keep : \A j \in keep : i <= j
                 hi == CHOOSE i \in keep : \A j \in keep : j <= i
             IN  SubSeq(s, lo, hi)

Digits == <<"0", "1", "2", "3", "4", "5", "6", "7", "8", "9">>

isDigit(c) == \E d \in 1..10 : Digits[d] = c

digitValue(c) == (CHOOSE d \in 1..10 : Digits[d] = c) - 1

RECURSIVE digitsValue(_, _)
digitsValue(s, n) ==
    IF n = 0 THEN 0 ELSE 10 * digitsValue(s, n - 1) + digitValue(charAt(s, n))

\* parseInt(s): leading whitespace is skipped, then the longest run of digits
\* is read; NaN when there is none.
parseInt(s) ==
    LET t == trim(s)
        run == {n \in 0..Len(t) : \A i \in 1..n : isDigit(charAt(t, i))}
        n == CHOOSE m \in run : \A k \in run : k <= m
    IN  IF n = 0 THEN NaN ELSE digitsValue(t, n)

-----------------------------------------------------------------------------
\* Status classifier (Stack.statusConvert, Stack.isComposeExitClean).

UNKNOWN == "UNKNOWN"
CREATED_FILE == "CREATED_FILE"
CREATED_STACK == "CREATED_STACK"
RUNNING == "RUNNING"
EXITED == "EXITED"

MaxContainers == 3

\* The same tally without the early return on a failed container.
scanContainersCountOnly(list, i, count, expected) ==
    LET clean == {k \in 1..Len(list) : startsWith(trim(list[k]), "exited (0)")}
    IN  IF Cardinality(clean) = expected THEN RUNNING ELSE EXITED

RECURSIVE scanContainers(_, _, _, _)
\* The loop of isComposeExitClean from container i on, count clean exits so far.
scanContainers(list, i, count, expected) ==
    IF i > Len(list)
    THEN IF count = expected THEN RUNNING ELSE EXITED
    ELSE LET status == trim(list[i])
         IN  IF startsWith(status, "exited")
             THEN IF startsWith(status, "exited (0)")
                  THEN scanContainers(list, i + 1, count + 1, expected)
                  ELSE EXITED
             ELSE scanContainers(list, i + 1, count, expected)

\* parseInt(composeStack.Status.split("(")[1].split(")")[0])
expectedContainersExited(status) ==
    parseInt(splitFirst(splitSecond(status, "("), ")"))

isComposeExitClean(status, list) ==
    IF splitSecond(status, "(") = undefined THEN TypeError
    ELSE IF list.isNull THEN EXITED
    ELSE scanContainers(list.containers, 1, 0, expectedContainersExited(status))

\* statusConvert that asks for the containers of a created stack.
statusConvertCreatedByList(status, list) ==
    IF startsWith(status, "created")
    THEN IF list.isNull THEN UNKNOWN ELSE CREATED_STACK
    ELSE IF includes(status, "exited") THEN isComposeExitClean(status, list)
    ELSE IF startsWith(status, "running") THEN RUNNING
    ELSE UNKNOWN

\* statusConvert that reconciles a "running" aggregate with the containers too.
statusConvertReconcilingRunning(status, list) ==
    IF startsWith(status, "created") THEN CREATED_STACK
    ELSE IF startsWith(status, "running") THEN isComposeExitClean(status, list)
    ELSE IF includes(status, "exited") THEN isComposeExitClean(status, list)
    ELSE UNKNOWN

statusConvert(status, list) ==
    IF startsWith(status, "created") THEN CREATED_STACK
    ELSE IF includes(status, "exited") THEN isComposeExitClean(status, list)
    ELSE IF startsWith(status, "running") THEN RUNNING
    ELSE UNKNOWN

\* Aggregate Status strings of `docker compose ls`.
AggregateStatuses ==
    { "created(1)", "running(2)", "running(1), paused(1)",
      "exited(0)", "exited(1)", "exited(2)", "exited(3)",
      "exited(1), running(1)", "running(2), exited(1)",
      "exited", "paused(1)", "paused(1), exited(1)", "" }

\* Status strings of the containers `docker ps -a` lists.
ContainerStatuses ==
    { "exited (0) 2 hours ago", "exited (1) 5 seconds ago", "exited (137)",
      "  exited (0) 1 minute ago ", "Up 18 hours", "Exited (0) 3 hours ago" }

RECURSIVE SeqsUpTo(_, _)
SeqsUpTo(S, n) ==
    IF n = 0 THEN {<<>>}
    ELSE LET shorter == SeqsUpTo(S, n - 1)
         IN  shorter \cup {Append(q, x) : q \in shorter, x \in S}

\* getSingleComposeStatus: null (helper failed, no output) or the parsed rows.
null == [isNull |-> TRUE, containers |-> <<>>]

ContainerLists ==
    {null} \cup {[isNull |-> FALSE, containers |-> q] :
                    q \in SeqsUpTo(ContainerStatuses, MaxContainers)}


-----------------------------------------------------------------------------
\* The deployment the model runs in: one stack, one service, two clients.

Sockets == {"s1", "s2"}

endpoint == ""
stackName == "web"
serviceName == "app"
stacksDir == "/opt/stacks"

\* Stack.path
stackPath == stacksDir \o "/" \o stackName

\* Terminal instances alive at one time.
MaxTerminals == 2
\* Chunks one process writes in one run of the model.
MaxOutput == 1

getComposeTerminalName(e, stack) == "compose-" \o e \o "-" \o stack

getCombinedTerminalName(e, stack) == "combined-" \o e \o "-" \o stack

getContainerExecTerminalName(e, stack, container, index) ==
    "container-exec-" \o e \o "-" \o stack \o "-" \o container \o "-" \o index

getAttachTerminalName(service, e) == "attach-" \o service \o "-" \o e

TerminalNames ==
    { getComposeTerminalName(endpoint, stackName),
      getCombinedTerminalName(endpoint, stackName),
      getContainerExecTerminalName(endpoint, stackName, serviceName, "0"),
      getAttachTerminalName(serviceName, endpoint) }

\* pty.spawn returns a process or throws an Error with one of these messages.
SpawnErrors == {"File not found: docker", "spawn failed with code 2"}

SpawnResults == {"ok"} \cup SpawnErrors

\* Exit codes a process ends with.
ExitCodes == {0, 1}

\* message.split(" ").pop()
lastWord(msg) ==
    LET spaces == {i \in 1..Len(msg) : charAt(msg, i) = " "}
    IN  IF spaces = {} THEN msg
        ELSE SubSeq(msg, (CHOOSE i \in spaces : \A j \in spaces : j <= i) + 1, Len(msg))

\* Number(s) for the words a message ends with: 0 for a blank word, the value
\* of a digit string, NaN otherwise.
Number(s) ==
    LET t == trim(s)
    IN  IF t = "" THEN 0
        ELSE IF \A i \in 1..Len(t) : isDigit(charAt(t, i)) THEN digitsValue(t, Len(t))
        ELSE NaN

-----------------------------------------------------------------------------
\* Terminal (backend/terminal.ts). The operators take and return the heap
\* w = [t: instances, m: terminalMap, o: pending requests, e: emissions].

\* LimitQueue.pushItem: append, dropping the oldest item over the limit.
BufferLimit == 100

\* pushItem that never drops an item.
pushItemUnbounded(buffer, item) == Append(buffer, item)

pushItem(buffer, item) ==
    IF Len(buffer) >= BufferLimit THEN Append(Tail(buffer), item)
    ELSE Append(buffer, item)

Shells == {"sh"}

busyMessage == "Another operation is already running, please try again later."

idleOp ==
    [ op |-> "none", arg |-> "", desc |-> "", pc |-> "idle",
      settled |-> "", exitCode |-> 0, error |-> "", terminal |-> 0,
      status |-> UNKNOWN, ran |-> <<>> ]

emit(socket, event, name, data, exitCode) ==
    [ socket |-> socket, event |-> event, name |-> name,
      data |-> data, exitCode |-> exitCode ]

\* An instance number no Terminal holds.
freeTerminal ==
    [ name |-> "", kind |-> "none", file |-> "", args |-> <<>>,
      cwd |-> "", ptyProcess |-> "undefined", buffer |-> <<>>,
      callback |-> "none", callbacks |-> 0, exits |-> 0,
      rows |-> "", cols |-> "",
      enableKeepAlive |-> FALSE, keepAliveInterval |-> FALSE,
      kickDisconnectedClientsInterval |-> FALSE,
      interrupted |-> FALSE, written |-> 0, spawns |-> 0, sentTo |-> {}, stdin |-> <<>>,
      socketList |-> {} ]

freeIds(t) == {id \in DOMAIN t : t[id].kind = "none"}

\* new Terminal(...) and its subclasses: the constructor registers the instance
\* under its name, whatever the map holds for that name.
newTerminal(w, kind, name, file, args, cwd) ==
    LET id == CHOOSE i \in freeIds(w.t) : \A j \in freeIds(w.t) : i <= j
        instance ==
            [ name |-> name, kind |-> kind, file |-> file, args |-> args,
              cwd |-> cwd, ptyProcess |-> "undefined", buffer |-> <<>>,
              callback |-> "none", callbacks |-> 0, exits |-> 0,
              rows |-> "TERMINAL_ROWS", cols |-> "TERMINAL_COLS",
              enableKeepAlive |-> FALSE, keepAliveInterval |-> FALSE,
              kickDisconnectedClientsInterval |-> FALSE,
              interrupted |-> FALSE, written |-> 0, spawns |-> 0, sentTo |-> {}, stdin |-> <<>>,
      socketList |-> {} ]
    IN  [w EXCEPT !.t[id] = instance, !.m[name] = id]

\* join that puts the socket in place of the ones joined before.
joinReplacing(w, id, socket) == [w EXCEPT !.t[id].socketList = {socket}]

join(w, id, socket) == [w EXCEPT !.t[id].socketList = @ \cup {socket}]

\* leave that removes every socket.
leaveAll(w, id, socket) == [w EXCEPT !.t[id].socketList = {}]

leave(w, id, socket) == [w EXCEPT !.t[id].socketList = @ \ {socket}]

\* What a client types into a shell.
Inputs == {"ls\r", "exit\r"}

\* InteractiveTerminal.write: this.ptyProcess?.write(input). stdin is what the
\* process has been sent.
write(w, id, input) ==
    IF w.t[id].ptyProcess = "undefined" THEN w
    ELSE [w EXCEPT !.t[id].stdin = Append(@, input)]

onExit(w, id, callback) == [w EXCEPT !.t[id].callback = callback]

\* The callback Terminal.exec registers: resolve(exitCode). A promise settles
\* once; the continuation of the awaiting request is queued as a microtask.
resolve(o, socket, id, exitCode) ==
    IF o[socket].pc = "exec" /\ o[socket].terminal = id
    THEN [o EXCEPT ![socket].pc = "microtask",
                   ![socket].settled = "fulfilled",
                   ![socket].exitCode = exitCode]
    ELSE o

reject(o, socket, reason) ==
    [o EXCEPT ![socket].pc = "microtask",
              ![socket].settled = "rejected",
              ![socket].error = reason]

\* The k-th chunk the process of a terminal writes.
chunk(k) == "chunk " \o ToString(k)

\* The onData handler that only buffers.
onDataBufferOnly(w, id, data) ==
    [w EXCEPT !.t[id].buffer = pushItem(@, data),
              !.t[id].written = @ + 1]

\* The onData handler start() installs: buffer the chunk, then send it to
\* every joined socket. written counts the chunks of the process, sentTo
\* holds the sockets the terminal has sent output to.
onData(w, id, data) ==
    [w EXCEPT !.t[id].buffer = pushItem(@, data),
              !.t[id].written = @ + 1,
              !.t[id].sentTo = @ \cup w.t[id].socketList,
              !.e = {emit(s, "terminalWrite", w.t[id].name, data, 0) :
                        s \in w.t[id].socketList}]

\* exit without removing the instance's name from terminalMap.
exitKeepRegistered(w, id, exitCode) ==
    LET T == w.t[id]
    IN  [w EXCEPT
            !.e = @ \cup {emit(s, "terminalExit", T.name, "", exitCode) : s \in T.socketList},
            !.t[id].socketList = {},
            !.t[id].keepAliveInterval = FALSE,
            !.t[id].kickDisconnectedClientsInterval = FALSE,
            !.t[id].exits = @ + 1,
            !.t[id].callbacks = IF T.callback = "none" THEN @ ELSE @ + 1,
            !.o = IF T.callback = "none" THEN @
                  ELSE resolve(@, T.callback, id, exitCode)]

\* Terminal.exit, the exit event handler.
exit(w, id, exitCode) ==
    LET T == w.t[id]
    IN  [w EXCEPT
            !.e = @ \cup {emit(s, "terminalExit", T.name, "", exitCode) : s \in T.socketList},
            !.t[id].socketList = {},
            !.m[T.name] = 0,
            !.t[id].keepAliveInterval = FALSE,
            !.t[id].kickDisconnectedClientsInterval = FALSE,
            !.t[id].exits = @ + 1,
            !.t[id].callbacks = IF T.callback = "none" THEN @ ELSE @ + 1,
            !.o = IF T.callback = "none" THEN @
                  ELSE resolve(@, T.callback, id, exitCode)]

\* start whose catch branch only stops the keep-alive timer.
startFailingSilently(w, id, spawn) ==
    IF w.t[id].ptyProcess # "undefined" THEN w
    ELSE LET w1 == [w EXCEPT
                        !.t[id].kickDisconnectedClientsInterval = TRUE,
                        !.t[id].keepAliveInterval = w.t[id].enableKeepAlive]
         IN  IF spawn = "ok"
             THEN [w1 EXCEPT !.t[id].ptyProcess = "running", !.t[id].spawns = @ + 1]
             ELSE [w1 EXCEPT !.t[id].keepAliveInterval = FALSE]

\* Terminal.start; spawn is what pty.spawn does this time.
start(w, id, spawn) ==
    IF w.t[id].ptyProcess # "undefined" THEN w
    ELSE LET w1 == [w EXCEPT
                        !.t[id].kickDisconnectedClientsInterval = TRUE,
                        !.t[id].keepAliveInterval = w.t[id].enableKeepAlive]
         IN  IF spawn = "ok"
             THEN [w1 EXCEPT !.t[id].ptyProcess = "running", !.t[id].spawns = @ + 1]
             ELSE exit([w1 EXCEPT !.t[id].keepAliveInterval = FALSE],
                       id, Number(lastWord(spawn)))

\* How the helper process `docker compose logs --tail=100` ends: a "close"
\* event after it printed output and exited with code, an "error" event when
\* it could not be run, or an exception thrown while it is set up.
Fetches ==
    { [event |-> "close", code |-> 0, output |-> "app  | ready"],
      [event |-> "close", code |-> 0, output |-> ""],
      [event |-> "close", code |-> 1, output |-> "no such service: app"],
      [event |-> "error", code |-> 0, output |-> ""],
      [event |-> "throw", code |-> 0, output |-> ""] }

\* AttachTerminal.getContainerLogs: what the promise resolves with.
getContainerLogs(fetch) == IF fetch.event = "error" THEN "" ELSE fetch.output

\* The logs sent to the sockets of a terminal.
sendLogs(w, id, logs) ==
    [w EXCEPT !.t[id].sentTo = @ \cup w.t[id].socketList,
              !.e = {emit(k, "terminalWrite", w.t[id].name, logs, 0) :
                        k \in w.t[id].socketList}]

\* startWithLogs that gives up when the helper failed.
startWithLogsAborting(w, id, fetch, spawn) ==
    IF fetch.event = "close" /\ fetch.code = 0
    THEN start(sendLogs(w, id, getContainerLogs(fetch)), id, spawn)
    ELSE w

\* AttachTerminal.startWithLogs after its await: the logs go to the joined
\* sockets, an exception is caught; then start().
startWithLogs(w, id, fetch, spawn) ==
    IF fetch.event = "throw"
    THEN start(w, id, spawn)
    ELSE start(sendLogs(w, id, getContainerLogs(fetch)), id, spawn)

\* close that takes the terminal out of terminalMap as well.
closeUnregistering(w, id) ==
    [w EXCEPT !.t[id].keepAliveInterval = FALSE,
              !.t[id].interrupted = @ \/ w.t[id].ptyProcess = "running",
              !.m[w.t[id].name] = 0]

\* close that stops the keep-alive timer and leaves the process alone.
closeTimerOnly(w, id) == [w EXCEPT !.t[id].keepAliveInterval = FALSE]

\* Terminal.close: stop the keep-alive timer, write Ctrl+C to the process.
close(w, id) ==
    [w EXCEPT !.t[id].keepAliveInterval = FALSE,
              !.t[id].interrupted = @ \/ w.t[id].ptyProcess = "running"]

getOrCreateTerminal(w, name, file, args, cwd) ==
    IF w.m[name] # 0 THEN w ELSE newTerminal(w, "Terminal", name, file, args, cwd)

\* Terminal.exec without the check that the name is free.
execUnchecked(w, socket, terminalName, file, args, cwd, spawn) ==
    LET w1 == newTerminal(w, "Terminal", terminalName, file, args, cwd)
        id == w1.m[terminalName]
        w2 == [w1 EXCEPT !.t[id].rows = "PROGRESS_TERMINAL_ROWS"]
        w3 == onExit(join(w2, id, socket), id, socket)
        w4 == [w3 EXCEPT !.o[socket].pc = "exec",
                         !.o[socket].terminal = id,
                         !.o[socket].ran =
                            Append(@, w.o[socket].desc)]
    IN  start(w4, id, spawn)

\* Terminal.exec: the promise the caller awaits.
exec(w, socket, terminalName, file, args, cwd, spawn) ==
    IF w.m[terminalName] # 0
    THEN [w EXCEPT !.o = reject(@, socket, busyMessage)]
    ELSE LET w1 == newTerminal(w, "Terminal", terminalName, file, args, cwd)
             id == w1.m[terminalName]
             w2 == [w1 EXCEPT !.t[id].rows = "PROGRESS_TERMINAL_ROWS"]
             w3 == onExit(join(w2, id, socket), id, socket)
             w4 == [w3 EXCEPT !.o[socket].pc = "exec",
                              !.o[socket].terminal = id,
                              !.o[socket].ran =
                                 Append(@, w.o[socket].desc)]
         IN  start(w4, id, spawn)


-----------------------------------------------------------------------------
\* Stack.validate and Stack.save (backend/stack.ts).

\* No save() has been called.
noStack ==
    [ pc |-> "idle", error |-> "", isAdd |-> FALSE, name |-> "",
      composeYAML |-> "", composeOverrideYAML |-> "", composeENV |-> "",
      written |-> <<>> ]

\* The characters the name pattern /^[a-z0-9_-]+$/ admits.
NameChars ==
    { "a", "b", "c", "d", "e", "f", "g", "h", "i", "j", "k", "l", "m",
      "n", "o", "p", "q", "r", "s", "t", "u", "v", "w", "x", "y", "z",
      "0", "1", "2", "3", "4", "5", "6", "7", "8", "9", "_", "-" }

\* this.name.match(/^[a-z0-9_-]+$/)
matchesName(name) ==
    Len(name) > 0 /\ \A i \in 1..Len(name) : charAt(name, i) \in NameChars

\* Texts yaml.parse throws on; every other text of the model parses.
BrokenYaml == {"services: [", "a: b: c"}

\* yaml.parse(text): the error it throws, "" when it returns.
yamlParse(text) == IF text \in BrokenYaml THEN "YAMLParseError" ELSE ""

\* composeENV.split("\n").length === 1
oneLine(text) == ~includes(text, "\n")

\* validateEnvFormat: the error it throws, "" when it returns.
validateEnvFormat(composeENV) ==
    IF oneLine(composeENV) /\ ~includes(composeENV, "=") /\ Len(composeENV) > 0
    THEN "Invalid .env format"
    ELSE ""

\* validate with the name test alone.
validateNameOnly(st) ==
    IF ~matchesName(st.name) THEN "Stack name can only contain [a-z][0-9] _ - only"
    ELSE ""

\* validate: the error it throws, "" when it returns.
validate(st) ==
    IF ~matchesName(st.name) THEN "Stack name can only contain [a-z][0-9] _ - only"
    ELSE IF yamlParse(st.composeYAML) # "" THEN yamlParse(st.composeYAML)
    ELSE IF st.composeOverrideYAML # "" /\ trim(st.composeOverrideYAML) # ""
            /\ yamlParse(st.composeOverrideYAML) # ""
         THEN yamlParse(st.composeOverrideYAML)
    ELSE validateEnvFormat(st.composeENV)

\* What a client sends to be saved.
StackNames == {"web", "a_b-1", "Web", "my stack", ""}
ComposeTexts == {"services: {}", "services: ["}
OverrideTexts == {"", "  ", "services: {}", "a: b: c"}
EnvTexts == {"", "FOO=1", "FOO", "FOO\nBAR"}

composeFileName == "compose.yaml"
composeOverrideFileName == "compose.override.yaml"

\* save up to its first await.
save(st) ==
    IF validate(st) # ""
    THEN [st EXCEPT !.pc = "rejected", !.error = validate(st)]
    ELSE [st EXCEPT !.pc = "fileExists"]

\* save() is called on a Stack built from what the client sent.
Save(isAdd, name, yaml, override, env) ==
    /\ theStack.pc \in {"idle", "resolved", "rejected"}
    /\ theStack' = save([noStack EXCEPT !.isAdd = isAdd, !.name = name,
                        !.composeYAML = yaml, !.composeOverrideYAML = override,
                        !.composeENV = env])
    /\ UNCHANGED <<sessionVars, statusVars, otherStack, stackListVars, derived>>

\* fsAsync.mkdir(dir) that succeeds on a directory that is there ({recursive:
\* true}).
mkdirRecursive(fs) == [error |-> "", files |-> fs \cup {"dir"}]

\* fsAsync.mkdir(dir): rejects with EEXIST when the directory is there.
mkdir(fs) ==
    IF "dir" \in fs
    THEN [error |-> "EEXIST: file already exists, mkdir", files |-> fs]
    ELSE [error |-> "", files |-> fs \cup {"dir"}]

\* save from one await to the next, on the disk fs: the Stack and the disk
\* after it.
saveNext(st, fs) ==
    CASE st.pc = "fileExists" ->
            [ st |-> IF st.isAdd
                     THEN IF "dir" \in fs
                          THEN [st EXCEPT !.pc = "rejected",
                                          !.error = "Stack name already exists"]
                          ELSE [st EXCEPT !.pc = "mkdir"]
                     ELSE IF "dir" \notin fs
                          THEN [st EXCEPT !.pc = "rejected", !.error = "Stack not found"]
                          ELSE [st EXCEPT !.pc = "writeCompose"],
              files |-> fs ]
      [] st.pc = "mkdir" ->
            [ st |-> IF mkdir(fs).error # ""
                     THEN [st EXCEPT !.pc = "rejected", !.error = mkdir(fs).error]
                     ELSE [st EXCEPT !.pc = "writeCompose"],
              files |-> mkdir(fs).files ]
      [] st.pc = "writeCompose" ->
            [ st |-> [st EXCEPT !.pc = "writeEnv",
                                !.written = Append(@, composeFileName)],
              files |-> fs \cup {composeFileName} ]
      [] st.pc = "writeEnv" ->
            LET writes == ".env" \in fs \/ trim(st.composeENV) # ""
            IN  [ st |-> [st EXCEPT !.pc = "writeOverride",
                                    !.written = IF writes THEN Append(@, ".env") ELSE @],
                  files |-> IF writes THEN fs \cup {".env"} ELSE fs ]
      [] st.pc = "writeOverride" ->
            LET writes == composeOverrideFileName \in fs
                            \/ trim(st.composeOverrideYAML) # ""
            IN  [ st |-> [st EXCEPT !.pc = "resolved",
                                    !.written = IF writes
                                                THEN Append(@, composeOverrideFileName)
                                                ELSE @],
                  files |-> IF writes THEN fs \cup {composeOverrideFileName} ELSE fs ]

\* save that goes on to write whatever fileExists(dir) says.
SaveDirUnchecked ==
    /\ theStack.pc = "fileExists"
    /\ theStack' = [theStack EXCEPT !.pc = IF theStack.isAdd /\ "dir" \notin files
                                          THEN "mkdir" ELSE "writeCompose"]
    /\ UNCHANGED <<sessionVars, statusVars, otherStack, stackListVars, derived>>

\* save after `await fileExists(dir)`.
SaveDirChecked ==
    /\ theStack.pc = "fileExists"
    /\ theStack' = saveNext(theStack, files).st
    /\ UNCHANGED <<sessionVars, statusVars, otherStack, stackListVars, derived>>

\* save after `await fsAsync.mkdir(dir)`.
SaveMkdir ==
    /\ theStack.pc = "mkdir"
    /\ files' = saveNext(theStack, files).files
    /\ theStack' = saveNext(theStack, files).st
    /\ UNCHANGED <<terminals, terminalMap, ops, connected, emitted, statusVars,
                   otherStack, stackListVars, derived>>

\* writeStackFiles: the compose file is written whatever its content.
SaveWriteCompose ==
    /\ theStack.pc = "writeCompose"
    /\ files' = saveNext(theStack, files).files
    /\ theStack' = saveNext(theStack, files).st
    /\ UNCHANGED <<terminals, terminalMap, ops, connected, emitted, statusVars,
                   otherStack, stackListVars, derived>>

\* writeFileIfExistsOrNotEmpty for the .env file.
SaveWriteEnv ==
    /\ theStack.pc = "writeEnv"
    /\ files' = saveNext(theStack, files).files
    /\ theStack' = saveNext(theStack, files).st
    /\ UNCHANGED <<terminals, terminalMap, ops, connected, emitted, statusVars,
                   otherStack, stackListVars, derived>>

\* writeFileIfExistsOrNotEmpty for the override file, then save returns.
SaveWriteOverride ==
    /\ theStack.pc = "writeOverride"
    /\ files' = saveNext(theStack, files).files
    /\ theStack' = saveNext(theStack, files).st
    /\ UNCHANGED <<terminals, terminalMap, ops, connected, emitted, statusVars,
                   otherStack, stackListVars, derived>>

\* Another client calls save() on a Stack object of its own for the same name.
SaveOther(isAdd, name, yaml, override, env) ==
    /\ otherStack.pc \in {"idle", "resolved", "rejected"}
    /\ otherStack' = save([noStack EXCEPT !.isAdd = isAdd, !.name = name,
                          !.composeYAML = yaml, !.composeOverrideYAML = override,
                          !.composeENV = env])
    /\ UNCHANGED <<sessionVars, statusVars, theStack, stackListVars, derived>>

\* The save() of the other client goes on from an await.
SaveOtherNext ==
    /\ otherStack.pc \in {"fileExists", "mkdir", "writeCompose", "writeEnv",
                          "writeOverride"}
    /\ files' = saveNext(otherStack, files).files
    /\ otherStack' = saveNext(otherStack, files).st
    /\ UNCHANGED <<terminals, terminalMap, ops, connected, emitted, statusVars,
                   theStack, stackListVars, derived>>

-----------------------------------------------------------------------------
\* Stack.getStackList, Stack.getStack and the cache of managed stacks
\* (backend/stack.ts).

\* The projects of the model: one that Dockge manages, one started outside it,
\* and Dockge's own.
ListNames == {"web", "ext", "dockge"}

\* Map.get(name) of a name the map does not hold.
absent == "absent"

\* Rows `docker compose ls` prints at most.
MaxRows == 2

\* childProcessAsync.spawn rejects, prints nothing, or prints what JSON.parse
\* throws on.
failed == [failed |-> TRUE, rows |-> <<>>]

\* What `docker compose ls --all --format json` can print: rows of Name and
\* Status, each project once.
ComposeLists ==
    LET StackJson == [Name : ListNames,
                      Status : {"running(1)", "exited(1)", "exited"}]
    IN  {failed} \cup
        {[failed |-> FALSE, rows |-> rows] :
            rows \in {q \in SeqsUpTo(StackJson, MaxRows) :
                        \A i \in 1..Len(q), j \in 1..Len(q) :
                            q[i].Name = q[j].Name => i = j}}

\* The enumeration reports the project.
Reported(res, name) ==
    ~res.failed /\ \E i \in 1..Len(res.rows) : res.rows[i].Name = name

\* scanStacksDirectory: every directory that holds a compose file gives a
\* Stack with status CREATED_FILE. The scan is one step of the model.
scanStacksDirectory(dirs) ==
    [n \in ListNames |-> IF n \in dirs THEN CREATED_FILE ELSE absent]

\* The loop of updateStackStatuses over composeList from row i on. A TypeError
\* of statusConvert leaves the loop for the catch block, after stackList.set.
RECURSIVE updateRows(_, _, _, _)
updateRows(stackList, rows, i, list) ==
    IF i > Len(rows) THEN stackList
    ELSE LET row == rows[i]
             found == stackList[row.Name] # absent
         IN  IF ~found /\ row.Name = "dockge"
             THEN updateRows(stackList, rows, i + 1, list)
             ELSE LET set == [stackList EXCEPT
                                ![row.Name] = IF found THEN @ ELSE UNKNOWN]
                      status == statusConvert(row.Status, list)
                  IN  IF status = TypeError THEN set
                      ELSE updateRows([set EXCEPT ![row.Name] = status],
                                      rows, i + 1, list)

updateStackStatuses(stackList, res, list) ==
    IF res.failed THEN stackList ELSE updateRows(stackList, res.rows, 1, list)

\* managedStackList is a copy of the scanned map that holds the same Stack
\* objects: a status set on a scanned Stack shows in the cache, a Stack added
\* to stackList after the copy does not.
shared(cache, stackList) ==
    [n \in ListNames |-> IF cache[n] # absent THEN stackList[n] ELSE absent]

\* getStackList(server) up to the await of `docker compose ls`.
GetStackList ==
    LET stackList == scanStacksDirectory(filenameList)
    IN  /\ listing.pc # "updateStackStatuses"
        /\ managedStackList' = stackList
        /\ listing' = [pc |-> "updateStackStatuses", scanned |-> stackList,
                       stackList |-> stackList]
        /\ UNCHANGED <<filenameList, composeList, returned>>
        /\ UNCHANGED <<sessionVars, statusVars, theStack, otherStack, derived>>

\* getStackList after the await: updateStackStatuses, then it returns.
UpdateStackStatuses ==
    LET stackList == updateStackStatuses(listing.stackList, composeList, composeStatus)
    IN  /\ listing.pc = "updateStackStatuses"
        /\ listing' = [listing EXCEPT !.pc = "returned", !.stackList = stackList]
        /\ managedStackList' = shared(managedStackList, stackList)
        /\ UNCHANGED <<filenameList, composeList, returned>>
        /\ UNCHANGED <<sessionVars, statusVars, theStack, otherStack, derived>>

\* getStackList(server, true) as getStack calls it: the cache when its size is
\* above 0, a scan and a status pass when it holds no Stack.
getStackListCached(cache, dirs, res, list) ==
    IF \E n \in ListNames : cache[n] # absent THEN cache
    ELSE updateStackStatuses(scanStacksDirectory(dirs), res, list)

\* getStack(server, stackName): a directory gives a new Stack with status
\* UNKNOWN; without one the Stack comes from getStackList(server, true).
GetStack(name) ==
    LET cached == \E n \in ListNames : managedStackList[n] # absent
        stackList == getStackListCached(managedStackList, filenameList, composeList,
                                        composeStatus)
    IN  /\ listing.pc # "updateStackStatuses"
        /\ IF name \in filenameList
           THEN /\ returned' = [name |-> name, error |-> "", status |-> UNKNOWN]
                /\ UNCHANGED <<managedStackList, listing>>
           ELSE /\ returned' =
                    IF stackList[name] # absent
                    THEN [name |-> name, error |-> "",
                          status |-> stackList[name]]
                    ELSE [name |-> name,
                          error |-> "Stack not found " \o name,
                          status |-> absent]
                /\ managedStackList' =
                    IF cached THEN managedStackList
                    ELSE shared(scanStacksDirectory(filenameList), stackList)
                /\ listing' =
                    IF cached THEN listing
                    ELSE [pc |-> "returned",
                          scanned |-> scanStacksDirectory(filenameList),
                          stackList |-> stackList]
        /\ UNCHANGED <<filenameList, composeList>>
        /\ UNCHANGED <<sessionVars, statusVars, theStack, otherStack, derived>>

\* save(true) of a stack has returned: its directory holds a compose file.
Saved(name) ==
    /\ name \notin filenameList
    /\ filenameList' = filenameList \cup {name}
    /\ UNCHANGED <<composeList, managedStackList, listing, returned>>
    /\ UNCHANGED <<sessionVars, statusVars, theStack, otherStack, derived>>

\* forceDelete, or delete with deleteStackFiles, of a stack has returned:
\* `docker compose down` has removed the project, which is no longer listed,
\* and fsAsync.rm its directory.
Deleted(name) ==
    /\ name \in filenameList
    /\ filenameList' = filenameList \ {name}
    /\ composeList' = [composeList EXCEPT
                            !.rows = SelectSeq(@, LAMBDA row : row.Name # name)]
    /\ UNCHANGED <<managedStackList, listing, returned>>
    /\ UNCHANGED <<sessionVars, statusVars, theStack, otherStack, derived>>

\* A Map<string, Stack> is the status of the Stack under each name; absent for
\* all in a new Map().
InitStackList ==
    /\ filenameList = {}
    /\ composeList = failed
    /\ managedStackList = [n \in ListNames |-> absent]
    /\ listing = [pc |-> "idle", scanned |-> managedStackList,
                  stackList |-> managedStackList]
    /\ returned = [name |-> "", error |-> "", status |-> absent]

-----------------------------------------------------------------------------
\* The terminal name of a request (common/util-common.ts, and terminalName of
\* the container terminal page).

\* What a client can ask a terminal for, on two endpoints, of three stacks and
\* three services; "" where the kind has no such part.
TerminalRequests ==
    LET Endpoints == {"", "nas"}
        Stacks == {"web", "web-db", "blog"}
        Services == {"app", "db-app", "db"}
        Indexes == {"0", "1"}
    IN  {[kind |-> k, endpoint |-> e, stack |-> st, service |-> "", index |-> ""] :
            k \in {"compose", "combined"}, e \in Endpoints, st \in Stacks}
        \cup {[kind |-> "container-exec", endpoint |-> e, stack |-> st,
               service |-> sv, index |-> i] :
                e \in Endpoints, st \in Stacks, sv \in Services, i \in Indexes}
        \cup {[kind |-> "attach", endpoint |-> e, stack |-> st, service |-> sv,
               index |-> ""] :
                e \in Endpoints, st \in Stacks, sv \in Services}

\* The name of the terminal that serves the request.
terminalName(r) ==
    CASE r.kind = "compose" -> getComposeTerminalName(r.endpoint, r.stack)
      [] r.kind = "combined" -> getCombinedTerminalName(r.endpoint, r.stack)
      [] r.kind = "container-exec" ->
            getContainerExecTerminalName(r.endpoint, r.stack, r.service, r.index)
      [] r.kind = "attach" -> getAttachTerminalName(r.service, r.endpoint)

\* No request has been named.
noNames ==
    LET noRequest == [kind |-> "none", endpoint |-> "", stack |-> "",
                      service |-> "", index |-> ""]
    IN  [a |-> noRequest, b |-> noRequest, names |-> <<>>]

\* Two requests arrive and each is given its terminal name.
TerminalName ==
    /\ derived.names = <<>>
    /\ derived.a.kind # "none"
    /\ derived' = [derived EXCEPT !.names = <<terminalName(derived.a),
                                              terminalName(derived.b)>>]
    /\ UNCHANGED <<sessionVars, statusVars, theStack, otherStack, stackListVars>>
-----------------------------------------------------------------------------
\* Stack (backend/stack.ts): the lifecycle commands.

\* options.splice(1, 0, a, b)
splice(options, a, b) == <<Head(options), a, b>> \o Tail(options)

\* getComposeOptions that never adds the environment-file arguments.
getComposeOptionsPlain(fs, command, extraOptions) == <<"compose", command>> \o extraOptions

\* getComposeOptions that puts the environment-file arguments at the end.
getComposeOptionsAppending(fs, command, extraOptions) ==
    LET options == <<"compose", command>> \o extraOptions
    IN  IF "global.env" \in fs
        THEN IF ".env" \in fs
             THEN options \o <<"--env-file", "./.env", "--env-file", "../global.env">>
             ELSE options \o <<"--env-file", "../global.env">>
        ELSE options

getComposeOptions(fs, command, extraOptions) ==
    LET options == <<"compose", command>> \o extraOptions
    IN  IF "global.env" \in fs
        THEN IF ".env" \in fs
             THEN splice(splice(options, "--env-file", "../global.env"),
                         "--env-file", "./.env")
             ELSE splice(options, "--env-file", "../global.env")
        ELSE options

getErrorMessage(actionDescription) ==
    "Failed to " \o actionDescription
        \o ", please check the terminal output for more information."

\* The requests a client sends for the stack.
Requests ==
    {[op |-> o, arg |-> ""] :
        o \in {"deploy", "start", "stop", "restart", "down", "forceDelete", "update"}}
    \cup {[op |-> "delete", arg |-> a] : a \in {"deleteStackFiles", "keepStackFiles"}}
    \cup {[op |-> o, arg |-> serviceName] :
            o \in {"startService", "stopService", "restartService"}}

\* The command, extra arguments and action description each method hands to
\* runComposeCommand.
composeCommand(req) ==
    CASE req.op = "deploy" ->
            [command |-> "up", args |-> <<"-d", "--remove-orphans">>, desc |-> "deploy"]
      [] req.op = "start" ->
            [command |-> "up", args |-> <<"-d", "--remove-orphans">>, desc |-> "start"]
      [] req.op = "stop" -> [command |-> "stop", args |-> <<>>, desc |-> "stop"]
      [] req.op = "restart" -> [command |-> "restart", args |-> <<>>, desc |-> "restart"]
      [] req.op = "down" -> [command |-> "down", args |-> <<>>, desc |-> "down"]
      [] req.op = "delete" ->
            [command |-> "down", args |-> <<"--remove-orphans">>,
             desc |-> "delete " \o stackName]
      [] req.op = "update" -> [command |-> "pull", args |-> <<>>, desc |-> "pull"]
      [] req.op = "startService" ->
            [command |-> "up", args |-> <<"-d", req.arg>>,
             desc |-> "start service " \o req.arg]
      [] req.op = "stopService" ->
            [command |-> "stop", args |-> <<req.arg>>,
             desc |-> "stop service " \o req.arg]
      [] req.op = "restartService" ->
            [command |-> "restart", args |-> <<req.arg>>,
             desc |-> "restart service " \o req.arg]

\* runTerminalExec up to its await.
runTerminalExec(w, socket, command, args, actionDescription, spawn) ==
    exec([w EXCEPT !.o[socket].desc = actionDescription], socket,
         getComposeTerminalName(endpoint, stackName), command, args, stackPath, spawn)

runComposeCommand(w, socket, fs, command, args, actionDescription, spawn) ==
    runTerminalExec(w, socket, "docker", getComposeOptions(fs, command, args),
                    actionDescription, spawn)

\* forceDelete up to its await: Terminal.exec called directly.
forceDelete(w, socket, fs, spawn) ==
    exec([w EXCEPT !.o[socket].desc = "force delete " \o stackName], socket,
         getComposeTerminalName(endpoint, stackName), "docker",
         getComposeOptions(fs, "down", <<"-v", "--remove-orphans">>), stackPath, spawn)

\* The request settles: the value returned, or the error thrown.
return(w, socket, exitCode) ==
    [w EXCEPT !.o[socket].pc = "resolved", !.o[socket].exitCode = exitCode]

throw(w, socket, message) ==
    [w EXCEPT !.o[socket].pc = "rejected", !.o[socket].error = message]

\* update after `await this.updateStatus()`, with prune outside the
\* running test.
updateAfterStatusPruneAlways(w, socket, fs, status, spawn) ==
    LET w1 == [w EXCEPT !.o[socket].status = status]
    IN  IF status = RUNNING
        THEN runComposeCommand(w1, socket, fs, "up", <<"-d", "--remove-orphans">>,
                               "restart", spawn)
        ELSE runTerminalExec(w1, socket, "docker",
                             <<"image", "prune", "--all", "--force">>,
                             "prune images", spawn)

\* update after `await this.updateStatus()`.
updateAfterStatus(w, socket, fs, status, spawn) ==
    LET w1 == [w EXCEPT !.o[socket].status = status]
    IN  IF status = RUNNING
        THEN runComposeCommand(w1, socket, fs, "up", <<"-d", "--remove-orphans">>,
                               "restart", spawn)
        ELSE return(w1, socket, w.o[socket].exitCode)

\* afterExec that removes the stack directory after every delete.
afterExecRemovingAlways(w, socket, spawn) ==
    LET o == w.o[socket]
    IN  CASE o.op \in {"delete", "forceDelete"} -> [w EXCEPT !.o[socket].pc = "rm"]
          [] o.op = "update" /\ o.desc = "pull" ->
                [w EXCEPT !.o[socket].pc = "updateStatus"]
          [] o.op = "update" /\ o.desc = "restart" ->
                runTerminalExec(w, socket, "docker",
                                <<"image", "prune", "--all", "--force">>,
                                "prune images", spawn)
          [] OTHER -> return(w, socket, o.exitCode)

\* What follows `await Terminal.exec(...)` with exit code 0, retrying is not
\* part of it: each method goes on to its next await or returns.
afterExec(w, socket, spawn) ==
    LET o == w.o[socket]
    IN  CASE o.op = "delete" /\ o.arg = "deleteStackFiles" ->
                [w EXCEPT !.o[socket].pc = "rm"]
          [] o.op = "forceDelete" -> [w EXCEPT !.o[socket].pc = "rm"]
          [] o.op = "update" /\ o.desc = "pull" ->
                [w EXCEPT !.o[socket].pc = "updateStatus"]
          [] o.op = "update" /\ o.desc = "restart" ->
                runTerminalExec(w, socket, "docker",
                                <<"image", "prune", "--all", "--force">>,
                                "prune images", spawn)
          [] OTHER -> return(w, socket, o.exitCode)

\* The continuation of `await Terminal.exec(...)` in runTerminalExec and
\* forceDelete, treating every exit code as success.
continueExecIgnoringExitCode(w, socket, spawn) ==
    LET o == w.o[socket]
    IN  IF o.settled = "rejected" THEN throw(w, socket, o.error)
        ELSE afterExec(w, socket, spawn)

\* The continuation that returns a non-zero exit code to the caller.
continueExecReturningExitCode(w, socket, spawn) ==
    LET o == w.o[socket]
    IN  IF o.settled = "rejected" THEN throw(w, socket, o.error)
        ELSE IF o.exitCode # 0 THEN return(w, socket, o.exitCode)
        ELSE afterExec(w, socket, spawn)

\* The continuation of `await Terminal.exec(...)` in runTerminalExec and
\* forceDelete.
continueExec(w, socket, spawn) ==
    LET o == w.o[socket]
    IN  IF o.settled = "rejected" THEN throw(w, socket, o.error)
        ELSE IF o.exitCode # 0 THEN throw(w, socket, getErrorMessage(o.desc))
        ELSE afterExec(w, socket, spawn)

-----------------------------------------------------------------------------
\* The event loop: one action per handler, run to its next await.

Statuses == {UNKNOWN, CREATED_STACK, RUNNING, EXITED}

\* An instance the program can still reach: registered, owning a live
\* process or timer, or held by a request that is suspended on it.
reachable(w, id) ==
    /\ w.t[id].kind # "none"
    /\ \/ \E n \in DOMAIN w.m : w.m[n] = id
       \/ w.t[id].ptyProcess = "running"
       \/ w.t[id].keepAliveInterval
       \/ w.t[id].kickDisconnectedClientsInterval
       \/ \E s \in DOMAIN w.o :
            w.o[s].pc \in {"exec", "getContainerLogs"} /\ w.o[s].terminal = id

\* The heap a handler starts from: instances nothing reaches are collected,
\* answers the clients have received are gone, nothing is emitted yet.
Heap ==
    LET w == [t |-> terminals, m |-> terminalMap, o |-> ops, e |-> {}]
    IN  [w EXCEPT
            !.t = [id \in DOMAIN terminals |->
                    IF reachable(w, id) THEN terminals[id] ELSE freeTerminal],
            !.o = [s \in DOMAIN ops |->
                    IF ops[s].pc \in {"resolved", "rejected"} THEN idleOp ELSE ops[s]]]

Apply(w) ==
    /\ terminals' = w.t
    /\ terminalMap' = w.m
    /\ ops' = w.o
    /\ emitted' = w.e

\* Continuations of settled promises run before the next event is handled.
NoMicrotask == \A s \in Sockets : ops[s].pc # "microtask"

Settled(s) == ops[s].pc \in {"idle", "resolved", "rejected"}

\* spawn is what pty.spawn does in a handler whose start() reaches it, and
\* "ok" in a handler whose start() returns at once.
Spawns(w, id, spawn) == w.t[id].ptyProcess = "undefined" \/ spawn = "ok"

\* A handler that may construct a Terminal for name has an instance to give.
Room(h, name) == h.m[name] # 0 \/ freeIds(h.t) # {}

Live == {id \in DOMAIN terminals : terminals[id].kind # "none"}

composeName == getComposeTerminalName(endpoint, stackName)
combinedName == getCombinedTerminalName(endpoint, stackName)
containerName == getContainerExecTerminalName(endpoint, stackName, serviceName, "0")
attachName == getAttachTerminalName(serviceName, endpoint)

InitSessions ==
    /\ terminals = [id \in 1..MaxTerminals |-> freeTerminal]
    /\ terminalMap = [n \in TerminalNames |-> 0]
    /\ ops = [s \in Sockets |-> idleOp]
    /\ connected = Sockets
    /\ emitted = {}
    /\ composeStack = ""
    /\ composeStatus = null
    /\ converted = "pending"
    /\ theStack = noStack
    /\ otherStack = noStack
    /\ InitStackList
    /\ derived = noNames

Init ==
    /\ InitSessions
    /\ files = {"dir"}

InitStack ==
    /\ InitSessions
    /\ files \in {{"dir"} \cup extra : extra \in SUBSET {"global.env", ".env"}}

\* A client asks for a lifecycle operation of the stack.
Request(s, req, spawn) ==
    LET h == Heap
        w == [h EXCEPT !.o[s].op = req.op, !.o[s].arg = req.arg]
        c == composeCommand(req)
    IN  /\ NoMicrotask
        /\ s \in connected
        /\ Settled(s)
        /\ Room(h, composeName)
        /\ h.m[composeName] = 0 \/ spawn = "ok"
        /\ Apply(IF req.op = "forceDelete" THEN forceDelete(w, s, files, spawn)
                 ELSE runComposeCommand(w, s, files, c.command, c.args, c.desc, spawn))
        /\ UNCHANGED <<connected, files, statusVars, otherStack, stackListVars, derived, theStack>>

\* The continuation goes on to the prune step of update.
RunsPrune(o) ==
    o.settled = "fulfilled" /\ o.exitCode = 0 /\ o.op = "update" /\ o.desc = "restart"

\* The awaited Terminal.exec promise has settled: the request goes on.
Resume(s, spawn) ==
    LET h == Heap
    IN  /\ ops[s].pc = "microtask"
        /\ freeIds(h.t) # {}
        /\ RunsPrune(ops[s]) \/ spawn = "ok"
        /\ Apply(continueExec(h, s, spawn))
        /\ UNCHANGED <<connected, files, statusVars, otherStack, stackListVars, derived, theStack>>

\* update: the status pass has answered.
UpdateStatusDone(s, status, spawn) ==
    LET h == Heap
    IN  /\ NoMicrotask
        /\ ops[s].pc = "updateStatus"
        /\ (status = RUNNING /\ h.m[composeName] = 0) \/ spawn = "ok"
        /\ Room(h, composeName)
        /\ Apply(updateAfterStatus(h, s, files, status, spawn))
        /\ UNCHANGED <<connected, files, statusVars, otherStack, stackListVars, derived, theStack>>

\* An error fsAsync.rm throws.
rmError == "EACCES: permission denied, rm"

\* delete, forceDelete: fsAsync.rm has removed the stack directory.
RmDone(s) ==
    /\ NoMicrotask
    /\ ops[s].pc = "rm"
    /\ files' = files \ {"dir", ".env"}
    /\ Apply(return(Heap, s, ops[s].exitCode))
    /\ UNCHANGED <<connected, statusVars, otherStack, stackListVars, derived, theStack>>

\* delete, forceDelete: fsAsync.rm has failed, some files may be gone.
RmFailed(s, gone) ==
    /\ NoMicrotask
    /\ ops[s].pc = "rm"
    /\ files' = files \ gone
    /\ Apply(throw(Heap, s, rmError))
    /\ UNCHANGED <<connected, statusVars, otherStack, stackListVars, derived, theStack>>

\* The process of a terminal writes its next chunk, limit chunks at most.
PtyData(id, limit) ==
    LET T == terminals[id]
    IN  /\ NoMicrotask
        /\ T.ptyProcess = "running"
        /\ T.written < limit
        /\ Apply(onData(Heap, id, chunk(T.written + 1)))
        /\ UNCHANGED <<connected, files, statusVars, otherStack, stackListVars, derived, theStack>>

\* The process of a terminal ends: the onExit handler.
PtyExit(id, exitCode) ==
    /\ NoMicrotask
    /\ terminals[id].ptyProcess = "running"
    /\ Apply(exit([Heap EXCEPT !.t[id].ptyProcess = "exited"], id, exitCode))
    /\ UNCHANGED <<connected, files, statusVars, otherStack, stackListVars, derived, theStack>>

\* joinCombinedTerminal that starts the terminal and joins the socket after.
JoinCombinedTerminalStartFirst(s, spawn) ==
    LET h == Heap
        w1 == getOrCreateTerminal(h, combinedName, "docker",
                getComposeOptions(files, "logs", <<"-f", "--tail", "100">>), stackPath)
        id == w1.m[combinedName]
        w2 == [w1 EXCEPT !.t[id].enableKeepAlive = TRUE,
                         !.t[id].rows = "COMBINED_TERMINAL_ROWS",
                         !.t[id].cols = "COMBINED_TERMINAL_COLS"]
    IN  /\ NoMicrotask
        /\ s \in connected
        /\ Room(h, combinedName)
        /\ Spawns(w2, id, spawn)
        /\ Apply(join(start(w2, id, spawn), id, s))
        /\ UNCHANGED <<connected, files, statusVars, otherStack, stackListVars, derived, theStack>>

JoinCombinedTerminal(s, spawn) ==
    LET h == Heap
        w1 == getOrCreateTerminal(h, combinedName, "docker",
                getComposeOptions(files, "logs", <<"-f", "--tail", "100">>), stackPath)
        id == w1.m[combinedName]
        w2 == [w1 EXCEPT !.t[id].enableKeepAlive = TRUE,
                         !.t[id].rows = "COMBINED_TERMINAL_ROWS",
                         !.t[id].cols = "COMBINED_TERMINAL_COLS"]
    IN  /\ NoMicrotask
        /\ s \in connected
        /\ Room(h, combinedName)
        /\ Spawns(w2, id, spawn)
        /\ Apply(start(join(w2, id, s), id, spawn))
        /\ UNCHANGED <<connected, files, statusVars, otherStack, stackListVars, derived, theStack>>

LeaveCombinedTerminal(s) ==
    LET h == Heap
    IN  /\ NoMicrotask
        /\ s \in connected
        /\ Apply(IF h.m[combinedName] = 0 THEN h ELSE leave(h, h.m[combinedName], s))
        /\ UNCHANGED <<connected, files, statusVars, otherStack, stackListVars, derived, theStack>>

JoinContainerTerminal(s, shell, spawn) ==
    LET h == Heap
        w1 == IF h.m[containerName] # 0 THEN h
              ELSE newTerminal(h, "InteractiveTerminal", containerName, "docker",
                        getComposeOptions(files, "exec", <<serviceName, shell>>),
                        stackPath)
        id == w1.m[containerName]
    IN  /\ NoMicrotask
        /\ s \in connected
        /\ Room(h, containerName)
        /\ Spawns(w1, id, spawn)
        /\ Apply(start(join(w1, id, s), id, spawn))
        /\ UNCHANGED <<connected, files, statusVars, otherStack, stackListVars, derived, theStack>>

\* AttachTerminal.getOrCreateAttachTerminal up to the await in startWithLogs.
GetOrCreateAttachTerminal(s) ==
    LET h == Heap
        found == h.m[attachName]
        isAttach == found # 0 /\ h.t[found].kind = "AttachTerminal"
        w1 == IF isAttach THEN h
              ELSE newTerminal(h, "AttachTerminal", attachName, "docker",
                        <<"compose", "attach", "--sig-proxy=false", serviceName>>,
                        stackPath)
    IN  /\ NoMicrotask
        /\ s \in connected
        /\ Settled(s)
        /\ isAttach \/ freeIds(h.t) # {}
        /\ Apply([w1 EXCEPT !.o[s].op = "attach",
                            !.o[s].pc = "getContainerLogs",
                            !.o[s].terminal = w1.m[attachName]])
        /\ UNCHANGED <<connected, files, statusVars, otherStack, stackListVars, derived, theStack>>

\* startWithLogs after its await, and the return of getOrCreateAttachTerminal.
StartWithLogs(s, fetch, spawn) ==
    LET id == ops[s].terminal
    IN  /\ NoMicrotask
        /\ ops[s].pc = "getContainerLogs"
        /\ Spawns(Heap, id, spawn)
        /\ Apply(return(startWithLogs(Heap, id, fetch, spawn), s, 0))
        /\ UNCHANGED <<connected, files, statusVars, otherStack, stackListVars, derived, theStack>>

\* A client is joined to the terminal registered under a name:
\* Terminal.getTerminal(name)?.join(socket).
JoinTerminal(s, name) ==
    LET h == Heap
    IN  /\ NoMicrotask
        /\ s \in connected
        /\ h.m[name] # 0
        /\ Apply(join(h, h.m[name], s))
        /\ UNCHANGED <<connected, files, statusVars, otherStack, stackListVars, derived, theStack>>

\* The callback of kickDisconnectedClientsInterval: this.leave(socket) for
\* every socket of socketList with !socket.connected.
RECURSIVE leaveEach(_, _, _)
leaveEach(w, id, sockets) ==
    IF sockets = {} THEN w
    ELSE LET socket == CHOOSE s \in sockets : TRUE
         IN  leaveEach(leave(w, id, socket), id, sockets \ {socket})

\* The timer start() sets to drop the sockets that are no longer connected.
KickDisconnectedClients(id) ==
    /\ NoMicrotask
    /\ terminals[id].kickDisconnectedClientsInterval
    /\ Apply(leaveEach(Heap, id, terminals[id].socketList \ connected))
    /\ UNCHANGED <<connected, files, statusVars, otherStack, stackListVars, derived, theStack>>

\* The timer start() sets when enableKeepAlive is on.
KeepAlive(id) ==
    /\ NoMicrotask
    /\ terminals[id].keepAliveInterval
    /\ Apply(IF terminals[id].socketList = {} THEN close(Heap, id) ELSE Heap)
    /\ UNCHANGED <<connected, files, statusVars, otherStack, stackListVars, derived, theStack>>

\* The transport loses a client.
Disconnect(s) ==
    /\ NoMicrotask
    /\ s \in connected
    /\ connected' = connected \ {s}
    /\ Apply(Heap)
    /\ UNCHANGED <<files, statusVars, otherStack, stackListVars, derived, theStack>>

\* The terminals the clients watch: the combined logs and the attach terminal.
Next ==
    \/ \E id \in Live, exitCode \in ExitCodes : PtyExit(id, exitCode)
    \/ \E s \in Sockets, spawn \in SpawnResults : JoinCombinedTerminal(s, spawn)
    \/ \E s \in Sockets : LeaveCombinedTerminal(s)
    \/ \E s \in Sockets : GetOrCreateAttachTerminal(s)
    \/ \E s \in Sockets, fetch \in Fetches, spawn \in SpawnResults :
            StartWithLogs(s, fetch, spawn)
    \/ \E id \in Live : KeepAlive(id)

Spec == Init /\ [][Next]_vars

\* The lifecycle commands of the stack on their own, every request allowed.
NextStack ==
    \/ \E s \in Sockets, req \in Requests, spawn \in SpawnResults : Request(s, req, spawn)
    \/ \E s \in Sockets, spawn \in SpawnResults : Resume(s, spawn)
    \/ \E s \in Sockets, status \in Statuses, spawn \in SpawnResults :
            UpdateStatusDone(s, status, spawn)
    \/ \E s \in Sockets : RmDone(s)
    \/ \E s \in Sockets, gone \in SUBSET {".env"} : RmFailed(s, gone)
    \/ \E id \in Live : PtyData(id, MaxOutput)
    \/ \E id \in Live, exitCode \in ExitCodes : PtyExit(id, exitCode)

SpecStack == InitStack /\ [][NextStack]_vars

\* A client types into the shell of the container.
MaxInput == 1

Write(s, input) ==
    LET h == Heap
        id == h.m[containerName]
    IN  /\ NoMicrotask
        /\ s \in connected
        /\ id # 0
        /\ h.t[id].kind = "InteractiveTerminal"
        /\ Len(h.t[id].stdin) < MaxInput
        /\ Apply(write(h, id, input))
        /\ UNCHANGED <<connected, files, statusVars, otherStack, stackListVars, derived, theStack>>

\* The shell in a container, with clients that come and go.
NextShell ==
    \/ \E s \in Sockets, input \in Inputs : Write(s, input)
    \/ \E s \in Sockets, shell \in Shells, spawn \in SpawnResults :
            JoinContainerTerminal(s, shell, spawn)
    \/ \E id \in Live : PtyData(id, MaxOutput)
    \/ \E id \in Live, exitCode \in ExitCodes : PtyExit(id, exitCode)
    \/ \E id \in Live : KickDisconnectedClients(id)
    \/ \E s \in Sockets : Disconnect(s)

SpecShell == Init /\ [][NextShell]_vars

\* The clients of the combined terminal and of the shell of a container, from
\* the join that creates the terminal to its exit.
NextJoin ==
    \/ \E s \in Sockets, spawn \in SpawnResults : JoinCombinedTerminal(s, spawn)
    \/ \E s \in Sockets : LeaveCombinedTerminal(s)
    \/ \E s \in Sockets, shell \in Shells, spawn \in SpawnResults :
            JoinContainerTerminal(s, shell, spawn)
    \/ \E id \in Live : PtyData(id, MaxOutput)
    \/ \E id \in Live, exitCode \in ExitCodes : PtyExit(id, exitCode)
    \/ \E id \in Live : KickDisconnectedClients(id)
    \/ \E s \in Sockets : Disconnect(s)

SpecJoin == Init /\ [][NextJoin]_vars

\* The output of a long-running terminal and the clients that watch it.
MaxChunks == 101

NextOutput ==
    \/ \E s \in Sockets, spawn \in SpawnResults : JoinCombinedTerminal(s, spawn)
    \/ \E s \in Sockets : LeaveCombinedTerminal(s)
    \/ \E id \in Live : PtyData(id, MaxChunks)
    \/ \E id \in Live, exitCode \in ExitCodes : PtyExit(id, exitCode)

SpecOutput == Init /\ [][NextOutput]_vars

\* The attach terminal with the clients that watch it: one client asks for the
\* terminal, again and again, and every client may be joined to it.
NextAttach ==
    \/ GetOrCreateAttachTerminal("s1")
    \/ \E fetch \in Fetches, spawn \in SpawnResults :
            StartWithLogs("s1", fetch, spawn)
    \/ \E s \in Sockets : JoinTerminal(s, attachName)
    \/ \E id \in Live : PtyData(id, MaxOutput)
    \/ \E id \in Live, exitCode \in ExitCodes : PtyExit(id, exitCode)

SpecAttach == Init /\ [][NextAttach]_vars

\* The keep-alive sweep: clients come to and go from the combined terminal, a
\* container shell runs without keep-alive.
NextKeepAlive ==
    \/ \E s \in Sockets, spawn \in SpawnResults : JoinCombinedTerminal(s, spawn)
    \/ \E s \in Sockets : LeaveCombinedTerminal(s)
    \/ \E spawn \in SpawnResults : JoinContainerTerminal("s1", "sh", spawn)
    \/ \E id \in Live : KeepAlive(id)
    \/ \E id \in Live, exitCode \in ExitCodes : PtyExit(id, exitCode)

\* close() writes Ctrl+C to the process, which ends `docker compose logs -f`;
\* the exit event of a process that was interrupted is delivered.
Interrupted(id) ==
    /\ terminals[id].interrupted
    /\ \E exitCode \in ExitCodes : PtyExit(id, exitCode)

SpecKeepAlive ==
    /\ Init
    /\ [][NextKeepAlive]_vars
    /\ \A id \in 1..MaxTerminals : WF_vars(Interrupted(id))
\* The status classifier on its own: one call of statusConvert per input.
InitStatus ==
    /\ terminals = [id \in 1..MaxTerminals |-> freeTerminal]
    /\ terminalMap = [n \in TerminalNames |-> 0]
    /\ ops = [s \in Sockets |-> idleOp]
    /\ connected = Sockets
    /\ files = {"dir"}
    /\ emitted = {}
    /\ composeStack \in AggregateStatuses
    /\ composeStatus \in ContainerLists
    /\ converted = "pending"
    /\ theStack = noStack
    /\ otherStack = noStack
    /\ InitStackList
    /\ derived = noNames

StatusConvert ==
    /\ converted = "pending"
    /\ converted' = statusConvert(composeStack, composeStatus)
    /\ UNCHANGED <<composeStack, composeStatus>>
    /\ UNCHANGED <<sessionVars, theStack, otherStack, stackListVars, derived>>

NextStatus == StatusConvert

SpecStatus == InitStatus /\ [][NextStatus]_vars


\* save() on its own, on a disk that holds the stack or does not.
InitSave ==
    /\ InitSessions
    /\ files \in {{}, {"dir", composeFileName}, {"dir", composeFileName, ".env"}}

NextSave ==
    \/ \E isAdd \in BOOLEAN, name \in StackNames, yaml \in ComposeTexts,
          override \in OverrideTexts, env \in EnvTexts :
            Save(isAdd, name, yaml, override, env)
    \/ SaveDirChecked
    \/ SaveMkdir
    \/ SaveWriteCompose
    \/ SaveWriteEnv
    \/ SaveWriteOverride

SpecSave == InitSave /\ [][NextSave]_vars

\* Two clients add a stack of the same name on a disk that does not hold it.
InitConcurrentSave ==
    /\ InitSessions
    /\ files = {}

NextConcurrentSave ==
    \/ \E override \in {"", "services: {}"}, env \in {"", "FOO=1"} :
            Save(TRUE, "web", "services: {}", override, env)
    \/ \E override \in {"", "services: {}"}, env \in {"", "FOO=1"} :
            SaveOther(TRUE, "web", "services: {}", override, env)
    \/ SaveDirChecked
    \/ SaveMkdir
    \/ SaveWriteCompose
    \/ SaveWriteEnv
    \/ SaveWriteOverride
    \/ SaveOtherNext

SpecConcurrentSave == InitConcurrentSave /\ [][NextConcurrentSave]_vars

-----------------------------------------------------------------------------
\* The stack list on its own: the disk and docker are in any state, stacks are
\* added and deleted, and clients ask for the list and for single stacks.
InitList ==
    /\ terminals = [id \in 1..MaxTerminals |-> freeTerminal]
    /\ terminalMap = [n \in TerminalNames |-> 0]
    /\ ops = [s \in Sockets |-> idleOp]
    /\ connected = Sockets
    /\ files = {}
    /\ emitted = {}
    /\ composeStack = ""
    /\ composeStatus \in {null, [isNull |-> FALSE,
                                  containers |-> <<"exited (0) 2 hours ago">>]}
    /\ converted = "pending"
    /\ theStack = noStack
    /\ otherStack = noStack
    /\ derived = noNames
    /\ filenameList \in SUBSET ListNames
    /\ composeList \in ComposeLists
    /\ managedStackList = [n \in ListNames |-> absent]
    /\ listing = [pc |-> "idle", scanned |-> managedStackList,
                  stackList |-> managedStackList]
    /\ returned = [name |-> "", error |-> "", status |-> absent]

NextList ==
    \/ GetStackList
    \/ UpdateStackStatuses
    \/ \E name \in ListNames : GetStack(name)
    \/ \E name \in ListNames : Saved(name)
    \/ \E name \in ListNames : Deleted(name)

SpecList == InitList /\ [][NextList]_vars

-----------------------------------------------------------------------------
\* The naming of terminals on its own: any two requests.
InitNames ==
    /\ terminals = [id \in 1..MaxTerminals |-> freeTerminal]
    /\ terminalMap = [n \in TerminalNames |-> 0]
    /\ ops = [s \in Sockets |-> idleOp]
    /\ connected = Sockets
    /\ files = {"dir"}
    /\ emitted = {}
    /\ composeStack = ""
    /\ composeStatus = null
    /\ converted = "pending"
    /\ theStack = noStack
    /\ otherStack = noStack
    /\ InitStackList
    /\ derived \in [a : TerminalRequests, b : TerminalRequests, names : {<<>>}]

NextNames == TerminalName

SpecNames == InitNames /\ [][NextNames]_vars
-----------------------------------------------------------------------------
\* Properties of the status classifier, checked under SpecStatus.

\* The exit code a container status line shows between its parentheses.
exitCodeOf(c) == parseInt(splitFirst(splitSecond(trim(c), "("), ")"))

FailedExit(c) == startsWith(trim(c), "exited") /\ exitCodeOf(c) # 0

CleanExit(c) == startsWith(trim(c), "exited") /\ exitCodeOf(c) = 0

\* The aggregate is exactly exited(N), for one digit N.
ExitedForm(status) == \E d \in 1..10 : status = "exited(" \o Digits[d] \o ")"

ExitedCount(status) == digitValue(charAt(status, 8))

\* C6: for an aggregate exited(N), statusConvert returns Exited when some
\* container's status starts with "exited" with a non-zero exit code; otherwise
\* Running when the number of containers that exited with code 0 equals N, and
\* Exited when it does not. A container list that could not be obtained counts
\* no clean exit for N of 1 and more.
C6_ExitReconciliation ==
    (converted # "pending" /\ ExitedForm(composeStack)
        /\ (composeStatus.isNull => ExitedCount(composeStack) >= 1)) =>
        LET list == composeStatus.containers
            clean == {i \in 1..Len(list) : CleanExit(list[i])}
        IN  converted =
                IF \E i \in 1..Len(list) : FailedExit(list[i]) THEN EXITED
                ELSE IF Cardinality(clean) = ExitedCount(composeStack) THEN RUNNING
                ELSE EXITED

\* exited(3) with three clean exits was classified Running.
C6_Witness ==
    /\ composeStack = "exited(3)"
    /\ ~composeStatus.isNull
    /\ Len(composeStatus.containers) = 3
    /\ \A i \in 1..3 : CleanExit(composeStatus.containers[i])
    /\ converted = RUNNING

\* C7 as claimed: every aggregate status that starts with "running" is
\* classified Running, whatever the per-container list is.
C7_Original ==
    (converted # "pending" /\ startsWith(composeStack, "running")) =>
        converted = RUNNING

\* C7 as amended: every aggregate status that starts with "running" and
\* does not contain "exited" is classified Running, whatever the
\* per-container list is.
C7_RunningUnlessExitedListed ==
    (/\ converted # "pending"
     /\ startsWith(composeStack, "running")
     /\ ~includes(composeStack, "exited")) =>
        converted = RUNNING

\* A "running" aggregate with further states listed, and a container list
\* that shows a failed exit, was classified Running.
C7_Witness ==
    /\ composeStack = "running(1), paused(1)"
    /\ ~composeStatus.isNull
    /\ \E i \in 1..Len(composeStatus.containers) :
            FailedExit(composeStatus.containers[i])
    /\ converted = RUNNING

\* The count the aggregate status lists for its exited entry, wherever the
\* entry stands.
ListedExitedCount(status) ==
    LET at == CHOOSE i \in 1..Len(status) : SubSeq(status, i, i + 6) = "exited("
    IN  parseInt(SubSeq(status, at + 7, Len(status)))

\* C26: an aggregate status that is an exited one, with a container list that
\* could not be obtained, is classified Exited.
C26_ExitedWithoutListIsExited ==
    (/\ converted # "pending"
     /\ includes(composeStack, "exited")
     /\ ~startsWith(composeStack, "created")
     /\ composeStatus.isNull) =>
        converted = EXITED

\* C27: the expected count of exited containers is the count of the exited
\* entry of the aggregate status, wherever that entry stands; with no failed
\* container the stack is Running exactly when that many exited cleanly.
C27_ExpectedCountIsListedCount ==
    (/\ converted # "pending"
     /\ includes(composeStack, "exited(")
     /\ ~startsWith(composeStack, "created")
     /\ ~composeStatus.isNull) =>
        LET list == composeStatus.containers
            clean == {i \in 1..Len(list) : CleanExit(list[i])}
        IN  /\ expectedContainersExited(composeStack) =
                    ListedExitedCount(composeStack)
            /\ (\A i \in 1..Len(list) : ~FailedExit(list[i])) =>
                    converted =
                        IF Cardinality(clean) = ListedExitedCount(composeStack)
                        THEN RUNNING ELSE EXITED

\* C28 as claimed: "created" gives CreatedAsProject, and every aggregate
\* status that starts with none of "created", "running", "exited" gives
\* Unknown, whatever the container list is.
C28_Original ==
    converted # "pending" =>
        /\ startsWith(composeStack, "created") => converted = CREATED_STACK
        /\ (/\ ~startsWith(composeStack, "created")
            /\ ~startsWith(composeStack, "running")
            /\ ~startsWith(composeStack, "exited")) => converted = UNKNOWN

\* C28 as amended: "created" gives CreatedAsProject, and every aggregate
\* status that neither starts with "created" or "running" nor contains
\* "exited" anywhere gives Unknown, whatever the container list is.
C28_CreatedAndUnknown ==
    converted # "pending" =>
        /\ startsWith(composeStack, "created") => converted = CREATED_STACK
        /\ (/\ ~startsWith(composeStack, "created")
            /\ ~startsWith(composeStack, "running")
            /\ ~includes(composeStack, "exited")) => converted = UNKNOWN

\* A created stack was classified with no container list at hand.
C28_Witness ==
    /\ composeStack = "created(1)"
    /\ composeStatus.isNull
    /\ converted = CREATED_STACK

\* C29: statusConvert returns one of the four classifications for every
\* aggregate status and never throws.
C29_StatusConvertIsTotal ==
    converted \in {"pending", UNKNOWN, CREATED_STACK, RUNNING, EXITED}

-----------------------------------------------------------------------------
\* Properties of the terminal registry and of exit handling.

\* The instances whose process is alive.
Running(name) ==
    {id \in Live : terminals[id].name = name /\ terminals[id].ptyProcess = "running"}

\* C1: for every terminal name, at most one instance is registered under it
\* and at most one live process backs it, whatever the interleaving of the
\* start and get-or-create requests.
C1_OneLiveProcessPerName ==
    \A name \in TerminalNames : Cardinality(Running(name)) <= 1

\* C3: the exit handler of an instance runs at most once, and so does its
\* completion callback.
C3_ExitHandledOnce ==
    \A id \in DOMAIN terminals :
        terminals[id].exits <= 1 /\ terminals[id].callbacks <= 1

\* The process of instance id ends in this step.
Exiting(id) ==
    terminals[id].ptyProcess = "running" /\ terminals'[id].ptyProcess = "exited"

\* C4: when the process of a terminal ends, every socket joined at that moment
\* is sent terminalExit with the terminal's name and the exit code; afterwards
\* the instance has no sockets and its name is not in terminalMap.
C4_ExitBroadcastAndUnregister ==
    [][\A id \in DOMAIN terminals :
         Exiting(id) =>
            /\ \E exitCode \in ExitCodes :
                 \A s \in terminals[id].socketList :
                    emit(s, "terminalExit", terminals[id].name, "", exitCode) \in emitted'
            /\ terminals'[id].socketList = {}
            /\ terminalMap'[terminals[id].name] = 0
            /\ ~terminals'[id].keepAliveInterval
            /\ ~terminals'[id].kickDisconnectedClientsInterval]_vars

\* Both clients watched the combined terminal when its process ended.
C4_Witness ==
    /\ terminalMap[combinedName] = 0
    /\ \E id \in Live, exitCode \in ExitCodes :
         /\ terminals[id].name = combinedName
         /\ terminals[id].ptyProcess = "exited"
         /\ terminals[id].socketList = {}
         /\ \A s \in Sockets :
              emit(s, "terminalExit", combinedName, "", exitCode) \in emitted

\* C5: an instance whose exit handler has run never has a running process
\* again.
C5_ExitedIsFinal ==
    \A id \in DOMAIN terminals :
        terminals[id].exits > 0 => terminals[id].ptyProcess # "running"

-----------------------------------------------------------------------------
\* Properties of the lifecycle commands.

\* Socket s reaches Terminal.exec in this step: a request arrives, update goes
\* on to recreate after its status pass, or to prune after recreate.
ExecStep(s) ==
    /\ ops'[s].pc \in {"exec", "microtask"}
    /\ \/ Settled(s)
       \/ ops[s].pc = "updateStatus"
       \/ ops[s].pc = "microtask" /\ ops'[s].desc # ops[s].desc

\* The instances the step constructs: nothing reached them before it.
Constructed ==
    {id \in DOMAIN terminals :
        /\ terminals'[id].kind # "none"
        /\ ~reachable([t |-> terminals, m |-> terminalMap, o |-> ops, e |-> {}], id)}

\* The processes alive before the step are the ones alive after it.
NoSpawn ==
    \A id \in DOMAIN terminals :
        terminals'[id].ptyProcess = "running" =>
            /\ terminals[id].ptyProcess = "running"
            /\ terminals'[id] = terminals[id]

\* C2: Terminal.exec for a name that is registered rejects at once with the
\* busy message, spawns nothing, and leaves the registered instance (buffer,
\* sockets, process) and terminalMap as they were.
C2_BusyLeavesSessionUntouched ==
    [][\A s \in Sockets :
         (ExecStep(s) /\ terminalMap[composeName] # 0) =>
            /\ ops'[s].pc = "microtask"
            /\ ops'[s].settled = "rejected"
            /\ ops'[s].error = busyMessage
            /\ Constructed = {}
            /\ terminalMap' = terminalMap
            /\ terminals'[terminalMap[composeName]] = terminals[terminalMap[composeName]]
            /\ NoSpawn]_vars

\* A request was refused while the running session had output in its buffer
\* and its client joined.
C2_Witness ==
    \E s \in Sockets :
        /\ ops[s].pc = "microtask"
        /\ ops[s].settled = "rejected"
        /\ ops[s].error = busyMessage
        /\ terminalMap[composeName] # 0
        /\ terminals[terminalMap[composeName]].ptyProcess = "running"
        /\ terminals[terminalMap[composeName]].buffer # <<>>
        /\ terminals[terminalMap[composeName]].socketList # {}

\* The continuation of a settled Terminal.exec runs for socket s in this step.
Continues(s) == ops[s].pc = "microtask" /\ ops[s].settled = "fulfilled"

DeployStep(s) ==
    Settled(s) /\ ops'[s].op = "deploy" /\ ops'[s].pc \in {"exec", "microtask"}

\* C9 as stated: deploy always runs one terminal with the arguments
\* compose up -d --remove-orphans.
C9_Original ==
    [][\A s \in Sockets :
         DeployStep(s) =>
            \E id \in DOMAIN terminals :
                /\ Constructed = {id}
                /\ terminals'[id].args = <<"compose", "up", "-d", "--remove-orphans">>]_vars

\* C9: deploy runs one terminal, unless the name is registered and it runs
\* none; the terminal is named by getComposeTerminalName(endpoint, stack name),
\* its working directory is the stack's path, and its arguments are compose up
\* -d --remove-orphans with the --env-file options after "compose" when the
\* global.env file exists.
C9_DeployRunsOneTerminal ==
    [][\A s \in Sockets :
         DeployStep(s) =>
            IF terminalMap[composeName] # 0 THEN Constructed = {}
            ELSE \E id \in DOMAIN terminals :
                    /\ Constructed = {id}
                    /\ terminals'[id].kind = "Terminal"
                    /\ terminals'[id].name = "compose-" \o endpoint \o "-" \o stackName
                    /\ terminals'[id].file = "docker"
                    /\ terminals'[id].cwd = stackPath
                    /\ terminals'[id].callback = s
                    /\ terminals'[id].args =
                        IF "global.env" \notin files
                        THEN <<"compose", "up", "-d", "--remove-orphans">>
                        ELSE IF ".env" \notin files
                        THEN <<"compose", "--env-file", "../global.env",
                               "up", "-d", "--remove-orphans">>
                        ELSE <<"compose", "--env-file", "./.env",
                               "--env-file", "../global.env",
                               "up", "-d", "--remove-orphans">>]_vars

\* deploy runs with both environment files in place.
C9_Witness ==
    \E s \in Sockets :
        /\ ops[s].op = "deploy"
        /\ ops[s].pc = "exec"
        /\ {"global.env", ".env"} \subseteq files
        /\ terminalMap[composeName] = ops[s].terminal
        /\ terminals[ops[s].terminal].ptyProcess = "running"
        /\ Len(terminals[ops[s].terminal].args) = 8

updateSteps == <<"pull", "restart", "prune images">>

\* C10 as stated: every update that succeeds has run the prune step last.
C10_Original ==
    \A s \in Sockets :
        (ops[s].op = "update" /\ ops[s].pc = "resolved") =>
            /\ ops[s].ran # <<>>
            /\ ops[s].ran[Len(ops[s].ran)] = "prune images"

\* C10: update runs pull, then recreate, then prune, each in a terminal of its
\* own started after the one before has exited with code 0; recreate and
\* prune both run only if the stack is RUNNING after the pull, and an update
\* of a stack that is not RUNNING resolves after the pull alone.
C10_UpdateOrder ==
    \A s \in Sockets :
        ops[s].op = "update" =>
            /\ Len(ops[s].ran) <= 3
            /\ ops[s].ran = SubSeq(updateSteps, 1, Len(ops[s].ran))
            /\ Len(ops[s].ran) >= 2 => ops[s].status = RUNNING
            /\ ops[s].pc = "exec" =>
                 /\ ops[s].ran # <<>>
                 /\ terminals[ops[s].terminal].ptyProcess = "running"
                 /\ terminals[ops[s].terminal].callback = s
                 /\ Running(composeName) = {ops[s].terminal}
            /\ ops[s].pc = "resolved" =>
                 IF ops[s].status = RUNNING
                 THEN ops[s].ran = updateSteps
                 ELSE ops[s].ran = <<"pull">>

\* An update of a running stack went through its three steps.
C10_Witness ==
    \E s \in Sockets :
        /\ ops[s].op = "update"
        /\ ops[s].pc = "resolved"
        /\ ops[s].status = RUNNING
        /\ ops[s].ran = updateSteps

\* C11 as stated: an update whose step exits non-zero returns that exit code
\* to its caller.
C11_Original ==
    \A s \in Sockets :
        (/\ ops[s].op = "update"
         /\ ops[s].settled = "fulfilled"
         /\ ops[s].exitCode # 0
         /\ ops[s].pc \in {"resolved", "rejected"}) => ops[s].pc = "resolved"

\* C11: when a step of update exits non-zero, update throws the error
\* "Failed to <step>, ..." instead of returning the exit code, starts none of
\* the later steps, and starts no terminal that would undo or repeat an
\* earlier step; the files of the stack stay as they are.
C11_UpdateStopsAtFailedStep ==
    [][\A s \in Sockets :
         (Continues(s) /\ ops[s].op = "update" /\ ops[s].exitCode # 0) =>
            /\ ops'[s].pc = "rejected"
            /\ ops'[s].error = "Failed to " \o ops[s].desc
                    \o ", please check the terminal output for more information."
            /\ ops'[s].exitCode = ops[s].exitCode
            /\ ops'[s].ran = ops[s].ran
            /\ Constructed = {}
            /\ NoSpawn
            /\ terminalMap' = terminalMap
            /\ files' = files]_vars

\* The recreate step of an update failed after the pull had succeeded.
C11_Witness ==
    \E s \in Sockets :
        /\ ops[s].op = "update"
        /\ ops[s].pc = "rejected"
        /\ ops[s].settled = "fulfilled"
        /\ ops[s].exitCode # 0
        /\ ops[s].ran = <<"pull", "restart">>
        /\ ops[s].error =
            "Failed to restart, please check the terminal output for more information."

\* The request of socket s asks for the stack directory to be removed.
RemovesFiles(o) ==
    o.op = "forceDelete" \/ (o.op = "delete" /\ o.arg = "deleteStackFiles")

EnvFileArgs(fs) ==
    IF "global.env" \notin fs THEN <<>>
    ELSE IF ".env" \notin fs THEN <<"--env-file", "../global.env">>
    ELSE <<"--env-file", "./.env", "--env-file", "../global.env">>

\* options is "compose", then the environment-file arguments for fs, then rest.
ComposeThenEnvThen(options, fs, rest) ==
    LET k == Len(EnvFileArgs(fs))
    IN  /\ Len(options) = 1 + k + Len(rest)
        /\ options[1] = "compose"
        /\ SubSeq(options, 2, 1 + k) = EnvFileArgs(fs)
        /\ SubSeq(options, 2 + k, Len(options)) = rest

\* The command and extra options of every call of getComposeOptions.
ComposeCalls ==
    {[command |-> composeCommand(req).command, args |-> composeCommand(req).args] :
        req \in {r \in Requests : r.op # "forceDelete"}}
    \cup {[command |-> "down", args |-> <<"-v", "--remove-orphans">>],
          [command |-> "logs", args |-> <<"-f", "--tail", "100">>],
          [command |-> "exec", args |-> <<serviceName, "sh">>]}

\* C30: getComposeOptions returns exactly "compose", the command and the extra
\* options when global.env is not in the stacks directory; with global.env in
\* place the --env-file arguments stand directly after "compose", the one of
\* the stack's own .env only when that file exists too; the command and the
\* extra options are always last, in the order given. The terminal every
\* request constructs for a compose command is given these arguments.
C30_ComposeOptions ==
    /\ [](\A c \in ComposeCalls :
            LET options == getComposeOptions(files, c.command, c.args)
            IN  /\ "global.env" \notin files =>
                        options = <<"compose", c.command>> \o c.args
                /\ ComposeThenEnvThen(options, files, <<c.command>> \o c.args)
                /\ ("../global.env" \in {options[i] : i \in 1..Len(options)})
                        <=> "global.env" \in files
                /\ ("./.env" \in {options[i] : i \in 1..Len(options)})
                        <=> {"global.env", ".env"} \subseteq files)
    /\ [][\A id \in Constructed :
            terminals'[id].args[1] = "compose" =>
                \E c \in ComposeCalls :
                    ComposeThenEnvThen(terminals'[id].args, files,
                                       <<c.command>> \o c.args)]_vars

\* stop runs with global.env in place and no .env of the stack.
C30_Witness ==
    \E s \in Sockets :
        /\ ops[s].op = "stop"
        /\ ops[s].pc = "exec"
        /\ "global.env" \in files
        /\ ".env" \notin files
        /\ terminals[ops[s].terminal].args =
                <<"compose", "--env-file", "../global.env", "stop">>

-----------------------------------------------------------------------------
\* Properties of save.

\* What the client sent is malformed: the name, the compose or override
\* syntax, or the shape of the environment file.
Malformed(st) ==
    \/ st.name \in {"Web", "my stack", ""}
    \/ st.composeYAML = "services: ["
    \/ st.composeOverrideYAML = "a: b: c"
    \/ st.composeENV = "FOO"

\* C13: save() on a stack with a malformed name, malformed compose or
\* override syntax, or a malformed environment file throws before it creates
\* the directory, writes a file or spawns a process: the disk is as before.
C13_InvalidSaveWritesNothing ==
    [][Malformed(theStack') =>
            /\ theStack'.pc = "rejected"
            /\ theStack'.error # ""
            /\ theStack'.written = <<>>
            /\ files' = files
            /\ terminals' = terminals
            /\ terminalMap' = terminalMap]_vars

\* A new stack with a one-word environment file was refused on an empty disk.
C13_Witness ==
    /\ theStack.pc = "rejected"
    /\ theStack.isAdd
    /\ theStack.name = "web"
    /\ theStack.composeYAML = "services: {}"
    /\ theStack.composeENV = "FOO"
    /\ theStack.error = "Invalid .env format"
    /\ files = {}

\* ---------------------------------------------------------------------------
\* A process that cannot be spawned.

\* The instances the step constructs without their process coming to run.
FailedToSpawn == {id \in Constructed : terminals'[id].ptyProcess # "running"}

\* C22: a terminal whose process cannot be spawned exits in the same step
\* without having run: its exit handler runs once with the number the error
\* message ends with, the joined sockets are told the exit code and removed,
\* the name is not registered, both timers are off, and the caller that awaits
\* the exit is resumed with that exit code.
C22_SpawnFailureExits ==
    [][\A id \in FailedToSpawn :
        LET T == terminals'[id]
        IN  /\ T.ptyProcess = "undefined"
            /\ T.spawns = 0
            /\ T.exits = 1
            /\ T.socketList = {}
            /\ terminalMap'[T.name] = 0
            /\ ~T.keepAliveInterval
            /\ ~T.kickDisconnectedClientsInterval
            /\ \E error \in SpawnErrors :
                LET exitCode == Number(lastWord(error))
                IN  /\ T.callback # "none" =>
                            /\ emit(T.callback, "terminalExit", T.name, "", exitCode)
                                    \in emitted'
                            /\ T.callbacks = 1
                            /\ ops'[T.callback].pc = "microtask"
                            /\ ops'[T.callback].settled = "fulfilled"
                            /\ ops'[T.callback].exitCode = exitCode
                    /\ \A x \in emitted' :
                            /\ x.event = "terminalExit"
                            /\ x.name = T.name
                            /\ x.exitCode = exitCode]_vars

\* The spawn of a stop failed with code 2: the caller has the exit code 2 and
\* is about to go on.
C22_Witness ==
    \E s \in Sockets :
        /\ ops[s].op = "stop"
        /\ ops[s].pc = "microtask"
        /\ ops[s].exitCode = 2
        /\ terminals[ops[s].terminal].exits = 1
        /\ terminals[ops[s].terminal].spawns = 0
        /\ terminalMap[composeName] = 0
        /\ emit(s, "terminalExit", composeName, "", 2) \in emitted

\* C23: the timers of a terminal are set between start() and exit only: once
\* the exit handler of an instance has run, neither its keep-alive sweep nor
\* its sweep of disconnected sockets is set, so none fires.
C23_NoTimerAfterExit ==
    \A id \in DOMAIN terminals :
        (terminals[id].kind # "none" /\ terminals[id].exits >= 1) =>
            /\ ~terminals[id].keepAliveInterval
            /\ ~terminals[id].kickDisconnectedClientsInterval

-----------------------------------------------------------------------------
\* Properties of the output buffer and of output delivery.

Min(a, b) == IF a < b THEN a ELSE b

\* The last n of the first k chunks, in the order they were written.
LastChunks(n, k) == [i \in 1..n |-> chunk(k - n + i)]

\* C14: the buffer of a terminal never holds more than 100 chunks; a chunk
\* that arrives at a full buffer evicts the oldest one and becomes the newest,
\* so the buffer is the last min(100, k) of the k chunks written, in order.
C14_BufferKeepsLastHundred ==
    \A id \in Live :
        /\ Len(terminals[id].buffer) <= 100
        /\ terminals[id].buffer =
            LastChunks(Min(100, terminals[id].written), terminals[id].written)

\* The 101st chunk has evicted the first.
C14_Witness ==
    \E id \in Live :
        /\ terminals[id].written = 101
        /\ Len(terminals[id].buffer) = 100
        /\ terminals[id].buffer[1] = "chunk 2"
        /\ terminals[id].buffer[100] = "chunk 101"

\* C19: the chunks of one terminal are delivered in the order the process
\* writes them: the step that buffers chunk k sends chunk k, once and tagged
\* with the terminal's name, to every joined socket and to nobody else, and
\* no other step sends a chunk.
C19_DeliveryInOrder ==
    [][/\ \A id \in DOMAIN terminals :
            terminals'[id].written = terminals[id].written + 1 =>
                /\ terminals'[id].buffer =
                    LastChunks(Min(100, terminals'[id].written), terminals'[id].written)
                /\ terminals'[id].socketList = terminals[id].socketList
                /\ emitted' =
                    {emit(s, "terminalWrite", terminals[id].name,
                          chunk(terminals[id].written + 1), 0) :
                        s \in terminals[id].socketList}
       /\ \A e \in emitted' :
            e.event = "terminalWrite" =>
                \E id \in DOMAIN terminals :
                    /\ terminals'[id].written = terminals[id].written + 1
                    /\ e.name = terminals[id].name
                    /\ e.socket \in terminals[id].socketList]_vars

\* Both clients have just been sent the third chunk of the combined terminal.
C19_Witness ==
    /\ terminalMap[combinedName] # 0
    /\ terminals[terminalMap[combinedName]].written = 3
    /\ emitted = {emit(s, "terminalWrite", combinedName, "chunk 3", 0) : s \in Sockets}

\* ---------------------------------------------------------------------------
\* join, leave and start on the terminals the clients watch.

\* The instances a handler can reach.
Instances == {id \in DOMAIN terminals : reachable(Heap, id)}

\* C15: join and leave never fail and are idempotent. On every instance and
\* for every socket: join adds the socket to socketList and leave removes it,
\* neither changes anything else; joining a socket that is joined and leaving
\* a socket that is not joined change nothing at all; join followed by leave
\* gives socketList without the socket; leaveCombinedTerminal of a stack whose
\* combined terminal is not registered changes nothing.
C15_JoinLeaveIdempotent ==
    /\ [](\A id \in Instances, s \in Sockets :
        LET W == Heap
            viewers == W.t[id].socketList
        IN  /\ join(W, id, s) = [W EXCEPT !.t[id].socketList = viewers \cup {s}]
            /\ leave(W, id, s) = [W EXCEPT !.t[id].socketList = viewers \ {s}]
            /\ join(join(W, id, s), id, s) = join(W, id, s)
            /\ leave(leave(W, id, s), id, s) = leave(W, id, s)
            /\ s \in viewers => join(W, id, s) = W
            /\ s \notin viewers => leave(W, id, s) = W
            /\ leave(join(W, id, s), id, s).t[id].socketList = viewers \ {s})
    /\ [][\A s \in Sockets :
            LeaveCombinedTerminal(s) =>
                IF terminalMap[combinedName] = 0
                THEN /\ terminals' = Heap.t
                     /\ terminalMap' = terminalMap
                ELSE LET id == terminalMap[combinedName]
                     IN  /\ terminals' =
                                [Heap.t EXCEPT ![id].socketList = @ \ {s}]
                         /\ terminalMap' = terminalMap]_vars

\* The combined terminal runs and one of two clients has left it again.
C15_Witness ==
    /\ terminalMap[combinedName] # 0
    /\ terminals[terminalMap[combinedName]].ptyProcess = "running"
    /\ terminals[terminalMap[combinedName]].socketList = {"s2"}
    /\ terminals[terminalMap[combinedName]].written = 0

\* An instance start() has been called on: its process was spawned, or the
\* spawn failed and exit() ran.
Started(id) == terminals[id].spawns >= 1 \/ terminals[id].exits >= 1

\* C20: start() on an instance that was started does nothing: no process is
\* spawned for it again and none of its timers is set again.
C20_StartIsIdempotent ==
    [][\A id \in Instances :
        Started(id) =>
            /\ terminals'[id].spawns = terminals[id].spawns
            /\ terminals'[id].kickDisconnectedClientsInterval =>
                    terminals[id].kickDisconnectedClientsInterval
            /\ terminals'[id].keepAliveInterval =>
                    terminals[id].keepAliveInterval]_vars

\* ---------------------------------------------------------------------------
\* The instance a name gives after an exit.

SessionOps ==
    {[op |-> o, arg |-> s] : o \in {"join", "leave"}, s \in Sockets}
    \cup {[op |-> "write", arg |-> i] : i \in Inputs}

perform(w, id, f) ==
    CASE f.op = "join" -> join(w, id, f.arg)
      [] f.op = "leave" -> leave(w, id, f.arg)
      [] f.op = "write" -> write(w, id, f.arg)

\* What the terminal holds: the joined sockets, the buffer, the dimensions.
SessionState(w, id) ==
    <<w.t[id].socketList, w.t[id].buffer, w.t[id].rows, w.t[id].cols>>

\* join and leave of one and the same socket.
Opposed(f, g) == f.arg = g.arg /\ {f.op, g.op} = {"join", "leave"}

\* C25 as claimed: any two of join, leave and write give the same terminal in
\* either order, and each of them done twice gives what it gives done once.
C25_Original ==
    \A id \in Instances, f \in SessionOps, g \in SessionOps :
        LET W == Heap
        IN  /\ SessionState(perform(perform(W, id, f), id, g), id)
                = SessionState(perform(perform(W, id, g), id, f), id)
            /\ SessionState(perform(perform(W, id, f), id, f), id)
                = SessionState(perform(W, id, f), id)

\* C25 as amended: each of join, leave and write done twice gives the terminal
\* it gives done once; any two of them give the same terminal in either order
\* unless they are the join and the leave of the same socket, of which the
\* later one decides whether the socket is joined.
C25_CommuteUnlessOpposed ==
    \A id \in Instances, f \in SessionOps, g \in SessionOps :
        LET W == Heap
            fg == perform(perform(W, id, f), id, g)
            gf == perform(perform(W, id, g), id, f)
        IN  /\ SessionState(perform(perform(W, id, f), id, f), id)
                = SessionState(perform(W, id, f), id)
            /\ ~Opposed(f, g) => SessionState(fg, id) = SessionState(gf, id)
            /\ (Opposed(f, g) /\ g.op = "leave") =>
                /\ g.arg \notin fg.t[id].socketList
                /\ g.arg \in gf.t[id].socketList
                /\ fg.t[id].socketList \ {g.arg} = gf.t[id].socketList \ {g.arg}
                /\ fg.t[id].buffer = gf.t[id].buffer

\* Both clients watch the shell of the container and one has typed into it.
C25_Witness ==
    /\ terminalMap[containerName] # 0
    /\ terminals[terminalMap[containerName]].socketList = Sockets
    /\ terminals[terminalMap[containerName]].stdin = <<"ls\r">>
    /\ terminals[terminalMap[containerName]].written = 1

\* ---------------------------------------------------------------------------
\* The attach terminal: the logs, then the live process.

\* The terminalWrite events that carry fetched logs rather than a chunk the
\* process wrote.
LogWrites(e) ==
    {x \in e : x.event = "terminalWrite" /\ x.name = attachName
                /\ x.data \in {getContainerLogs(f) : f \in Fetches}}

\* The step in which the startWithLogs call of a client goes on after its await.
FetchEnds(s) ==
    ops[s].pc = "getContainerLogs" /\ ops'[s].pc # "getContainerLogs"

\* A world is what start() makes of h, but for the logs sent to the sockets
\* that were joined.
AsStart(w, h, id, spawn) ==
    LET st == start(h, id, spawn)
    IN  /\ w.t = [st.t EXCEPT ![id].sentTo = w.t[id].sentTo]
        /\ w.m = st.m
        /\ w.e \ LogWrites(w.e) = st.e
        /\ \A x \in LogWrites(w.e) : x.socket \in h.t[id].socketList

\* The step ends as start() does, and the call of the client is resolved.
EndsAsStart(s) ==
    /\ ops'[s].pc = "resolved"
    /\ \E spawn \in SpawnResults :
            AsStart([t |-> terminals', m |-> terminalMap', e |-> emitted'],
                    Heap, ops[s].terminal, spawn)

\* The statement as given: a helper that fails, by an error or by a non-zero
\* exit code, counts as empty output.
C17_Original ==
    /\ [][\A s \in Sockets : FetchEnds(s) => EndsAsStart(s)]_vars
    /\ [](\A s \in Sockets : ops[s].pc = "getContainerLogs" =>
        LET h == Heap
            id == ops[s].terminal
        IN  \A fetch \in Fetches, spawn \in SpawnResults :
                LET w == startWithLogs(h, id, fetch, spawn)
                IN  /\ AsStart(w, h, id, spawn)
                    /\ (fetch.event # "close" \/ fetch.code # 0) =>
                            \A x \in LogWrites(w.e) : x.data = "")

\* C17: startWithLogs always ends in start() and the call never fails: after
\* the helper closed with any exit code, failed to run, or threw, the terminal,
\* the registry and the exit events are those start() gives, and the call is
\* resolved. A helper that could not be run counts as empty output; a helper
\* that closed sends what it printed to every joined socket, whatever its
\* exit code.
C17_StartWithLogsReachesStart ==
    /\ [][\A s \in Sockets : FetchEnds(s) => EndsAsStart(s)]_vars
    /\ [](\A s \in Sockets : ops[s].pc = "getContainerLogs" =>
        LET h == Heap
            id == ops[s].terminal
        IN  \A fetch \in Fetches, spawn \in SpawnResults :
                LET w == startWithLogs(h, id, fetch, spawn)
                IN  /\ AsStart(w, h, id, spawn)
                    /\ fetch.event = "error" =>
                            \A x \in LogWrites(w.e) : x.data = ""
                    /\ fetch.event = "close" =>
                            LogWrites(w.e) =
                                {emit(k, "terminalWrite", attachName, fetch.output, 0) :
                                    k \in h.t[id].socketList})

\* The helper failed with a client watching, and the attach went on: the
\* client got the helper's message and the process runs.
C17_Witness ==
    /\ \E x \in emitted : x.event = "terminalWrite" /\ x.data = "no such service: app"
    /\ \E s \in Sockets : ops[s].pc = "resolved"
    /\ terminalMap[attachName] # 0
    /\ terminals[terminalMap[attachName]].ptyProcess = "running"
    /\ terminals[terminalMap[attachName]].spawns = 1

\* C18: the fetched logs reach a joined socket once and before anything the
\* attached process writes: whenever a startWithLogs call sends logs to a
\* socket, the terminal has sent that socket nothing before, neither logs nor
\* a chunk of the process.
C18_LogsOnceBeforeLiveOutput ==
    [][\A s \in Sockets : FetchEnds(s) =>
        \A x \in LogWrites(emitted') :
            x.socket \notin terminals[ops[s].terminal].sentTo]_vars

\* ---------------------------------------------------------------------------
\* The keep-alive sweep.

\* The process of an instance was sent Ctrl+C and has not ended.
Closing(id) ==
    terminals[id].interrupted /\ terminals[id].ptyProcess = "running"

C21_CloseOnlyInterrupts ==
    /\ [](\A id \in Instances :
            LET W == Heap
                c == close(W, id)
            IN  /\ c.m = W.m /\ c.o = W.o /\ c.e = W.e
                /\ [c.t EXCEPT ![id].keepAliveInterval = FALSE,
                               ![id].interrupted = TRUE]
                    = [W.t EXCEPT ![id].keepAliveInterval = FALSE,
                                  ![id].interrupted = TRUE]
                /\ W.t[id].ptyProcess = "running" => c.t[id].interrupted)
    /\ [][\A n \in TerminalNames :
            (terminalMap[n] # 0 /\ terminalMap'[n] # terminalMap[n]) =>
                /\ terminalMap'[n] = 0
                /\ terminals'[terminalMap[n]].exits =
                        terminals[terminalMap[n]].exits + 1]_vars
    /\ [](\A id \in Instances :
            Closing(id) =>
                /\ terminalMap[terminals[id].name] = id
                /\ \A s \in Sockets, spawn \in SpawnResults :
                    LET w == exec(Heap, s, terminals[id].name, "docker",
                                  <<"compose", "down">>, stackPath, spawn)
                    IN  /\ w.o[s].settled = "rejected"
                        /\ w.o[s].error = busyMessage
                        /\ w.t = Heap.t /\ w.m = Heap.m)

\* The combined terminal was closed, has not exited, and a client has joined
\* it again: it is registered and the client is in its socketList.
C21_Witness ==
    \E id \in Instances :
        /\ Closing(id)
        /\ terminalMap[combinedName] = id
        /\ terminals[id].socketList = {"s1"}

\* ---------------------------------------------------------------------------
\* One lifecycle command at a time.

\* The request of client s was refused as busy and its continuation is queued.
RefusedBusy(s) ==
    /\ ops[s].pc = "microtask"
    /\ ops[s].settled = "rejected"
    /\ ops[s].error = busyMessage

\* C31: every lifecycle command of the stack runs in the terminal named
\* compose-<endpoint>-<stack>, and at most one process runs under that name at
\* any time. A command asked for while the name is registered is refused as
\* busy in the same step, which spawns nothing and leaves the files alone; the
\* refused request then fails without spawning, constructing or removing
\* anything.
C31_OneLifecycleCommand ==
    /\ [](/\ Cardinality(Running(composeName)) <= 1
          /\ \A id \in Instances :
                terminals[id].ptyProcess = "running" =>
                    /\ terminals[id].name = composeName
                    /\ terminalMap[composeName] = id)
    /\ [][\A s \in Sockets :
            /\ (ExecStep(s) /\ terminalMap[composeName] # 0) =>
                    /\ RefusedBusy(s)'
                    /\ NoSpawn
                    /\ Constructed = {}
                    /\ files' = files
            /\ RefusedBusy(s) =>
                    /\ ops'[s].pc = "rejected"
                    /\ ops'[s].error = busyMessage
                    /\ NoSpawn
                    /\ Constructed = {}
                    /\ files' = files]_vars

\* A forceDelete was refused while the deploy of the other client runs: the
\* files of the stack are in place.
C31_Witness ==
    /\ ops["s1"].op = "deploy"
    /\ ops["s1"].pc = "exec"
    /\ terminals[ops["s1"].terminal].ptyProcess = "running"
    /\ ops["s2"].op = "forceDelete"
    /\ ops["s2"].pc = "rejected"
    /\ ops["s2"].error = busyMessage
    /\ "dir" \in files

\* C32: a step of update is never refused because of the step before it. When
\* the continuation of a finished step is queued the compose name is free, so
\* the prune step that follows the restart step at once registers its
\* terminal; while update waits for the status pass, an instance registered
\* under the name belongs to another request, and with the name free the
\* restart step registers its terminal.
C32_NextStepCanRegister ==
    /\ [](\A s \in Sockets :
            /\ Continues(s) => terminalMap[composeName] = 0
            /\ (ops[s].pc = "updateStatus" /\ terminalMap[composeName] # 0) =>
                    terminals[terminalMap[composeName]].callback # s)
    /\ [][\A s \in Sockets :
            /\ (Continues(s) /\ RunsPrune(ops[s])) =>
                    /\ ~RefusedBusy(s)'
                    /\ ops'[s].desc = "prune images"
                    /\ \E id \in Constructed : terminals'[id].callback = s
            /\ (/\ ops[s].pc = "updateStatus"
                /\ ops'[s].pc # "updateStatus"
                /\ terminalMap[composeName] = 0) =>
                    ~RefusedBusy(s)']_vars

\* The restart step of an update has ended with code 0, its continuation is
\* queued and the compose name is free for the prune step.
C32_Witness ==
    \E s \in Sockets :
        /\ ops[s].op = "update"
        /\ ops[s].desc = "restart"
        /\ Continues(s)
        /\ ops[s].exitCode = 0
        /\ terminalMap[composeName] = 0
        /\ Len(ops[s].ran) = 2

\* ---------------------------------------------------------------------------
\* The sweep of the clients that are no longer connected.

\* C40: a sweep of a running terminal takes out of socketList the sockets that
\* are not connected and no other, sends nothing, settles no request, and
\* leaves the process, the registry and both timers as they were; the shell of
\* a container, which has no keep-alive, is never sent Ctrl+C.
C40_SweepRemovesDisconnected ==
    /\ [][\A id \in Live :
            KickDisconnectedClients(id) =>
                /\ terminals'[id].socketList =
                        {s \in terminals[id].socketList : s \in connected}
                /\ \A other \in DOMAIN terminals \ {id} :
                        terminals'[other].socketList = terminals[other].socketList
                /\ terminals'[id].ptyProcess = "running"
                /\ terminals'[id].interrupted = terminals[id].interrupted
                /\ terminals'[id].exits = terminals[id].exits
                /\ terminals'[id].kickDisconnectedClientsInterval
                /\ terminals'[id].keepAliveInterval = terminals[id].keepAliveInterval
                /\ terminalMap' = terminalMap
                /\ emitted' = {}
                /\ \A s \in Sockets : ops'[s].pc = "idle"]_vars
    /\ [](\A id \in DOMAIN terminals : ~terminals[id].interrupted)

\* Both clients watched the shell write; s1 lost its connection and a sweep
\* took it out, s2 still watches the running shell.
C40_Witness ==
    /\ terminalMap[containerName] # 0
    /\ connected = {"s2"}
    /\ terminals[terminalMap[containerName]].ptyProcess = "running"
    /\ terminals[terminalMap[containerName]].sentTo = {"s1", "s2"}
    /\ terminals[terminalMap[containerName]].socketList = {"s2"}

\* ---------------------------------------------------------------------------
\* The client whose join creates a terminal.

\* C39: joinCombinedTerminal and joinContainerTerminal join the socket before
\* they start the terminal. A terminal one of them constructs and whose process
\* runs has written nothing and holds one socket, a connected one; if the
\* process cannot be spawned, that one socket is told the exit in the same
\* step. Every chunk the process writes is sent to every joined socket, and
\* the exit to every socket joined at the exit; the join of another socket
\* takes no socket out.
C39_JoinBeforeStart ==
    /\ [][\A id \in Constructed :
            LET T == terminals'[id]
            IN  /\ T.name \in {combinedName, containerName}
                /\ T.written = 0
                /\ IF T.ptyProcess = "running"
                   THEN /\ Cardinality(T.socketList) = 1
                        /\ T.socketList \subseteq connected
                        /\ emitted' = {}
                   ELSE \E s \in connected, error \in SpawnErrors :
                            emitted' = {emit(s, "terminalExit", T.name, "",
                                             Number(lastWord(error)))}]_vars
    /\ [][\A id \in Instances :
            LET T == terminals[id]
            IN  /\ terminals'[id].written = T.written + 1 =>
                    /\ terminals'[id].socketList = T.socketList
                    /\ \A s \in T.socketList :
                            emit(s, "terminalWrite", T.name, chunk(T.written + 1), 0)
                                \in emitted'
                /\ (T.ptyProcess = "running" /\ terminals'[id].ptyProcess = "exited") =>
                    \E exitCode \in ExitCodes :
                        emitted' = {emit(s, "terminalExit", T.name, "", exitCode) :
                                        s \in T.socketList}
                /\ (terminals'[id].socketList \ T.socketList # {}) =>
                    T.socketList \subseteq terminals'[id].socketList]_vars

\* The client whose join created the shell of the container has been sent its
\* first chunk and, the only one that watches, is now told its exit.
C39_Witness ==
    \E id \in DOMAIN terminals :
        /\ terminals[id].name = containerName
        /\ terminals[id].ptyProcess = "exited"
        /\ terminals[id].written = 1
        /\ terminals[id].sentTo = {"s1"}
        /\ emitted = {emit("s1", "terminalExit", containerName, "", 0)}

\* ---------------------------------------------------------------------------
\* save() and the directory of the stack.

\* The directory is there for a stack to add, or is not there for a stack to
\* update.
WrongDirectory(st) ==
    \/ st.isAdd /\ "dir" \in files
    \/ ~st.isAdd /\ "dir" \notin files

directoryError(st) ==
    IF st.isAdd THEN "Stack name already exists" ELSE "Stack not found"

\* C36 as claimed: save(isAdd = true) with the directory there fails with
\* "Stack name already exists" and save(isAdd = false) with no directory fails
\* with "Stack not found".
C36_Original ==
    (theStack.pc = "rejected" /\ WrongDirectory(theStack)) =>
        theStack.error = directoryError(theStack)

\* C36 as amended: a save() that passes validate() reaches the test of the
\* directory; there, with isAdd and the directory present it throws "Stack
\* name already exists", without isAdd and with no directory it throws "Stack
\* not found", and in both cases the disk is as before. A save() that fails
\* validate() throws the error of validate() whatever the directory, and
\* leaves the disk as before too.
C36_RefusedByDirectory ==
    /\ [](/\ theStack.pc = "fileExists" => ~Malformed(theStack)
          /\ theStack.pc = "rejected" =>
                /\ theStack.written = <<>>
                /\ theStack.error # ""
                /\ Malformed(theStack) <=> theStack.error # directoryError(theStack)
                /\ ~Malformed(theStack) => WrongDirectory(theStack))
    /\ [][(theStack.pc = "fileExists" /\ WrongDirectory(theStack)) =>
            /\ theStack' = [theStack EXCEPT !.pc = "rejected",
                                            !.error = directoryError(theStack)]
            /\ files' = files]_vars
    /\ [][theStack'.pc = "rejected" => files' = files]_vars

\* A stack to add was refused because its directory is there.
C36_Witness ==
    /\ theStack.pc = "rejected"
    /\ theStack.isAdd
    /\ theStack.name = "web"
    /\ theStack.error = "Stack name already exists"
    /\ theStack.written = <<>>
    /\ files = {"dir", composeFileName}

\* ---------------------------------------------------------------------------
\* Terminal names.

\* C37: two requests that differ in kind, endpoint, stack, service or index
\* are given different terminal names.
C37_NamesInjective ==
    (derived.names # <<>> /\ derived.a # derived.b) =>
        derived.names[1] # derived.names[2]

\* ---------------------------------------------------------------------------
\* The stack list and the cache of managed stacks.

\* statusConvert returns a status for every row of the enumeration.
Convertible(res) ==
    \A i \in 1..Len(res.rows) : statusConvert(res.rows[i].Status, composeStatus) # TypeError

\* C33: getStack of a project that has no directory and that the enumeration
\* reports returns the project, whatever the cache holds. Stated for
\* projects other than Dockge's own and for an enumeration every row of which
\* statusConvert classifies.
C33_UnmanagedStackIsFound ==
    [][\A name \in ListNames \ {"dockge"} :
        (/\ GetStack(name)
         /\ name \notin filenameList
         /\ Reported(composeList, name)
         /\ Convertible(composeList)) =>
            /\ returned'.name = name
            /\ returned'.error = ""]_vars

\* C34: getStack of a project that has no directory and that the enumeration
\* does not report throws "Stack not found": the cache gives no Stack whose
\* directory is gone.
C34_DeletedStackIsNotFound ==
    [][\A name \in ListNames :
        (/\ GetStack(name)
         /\ name \notin filenameList
         /\ ~Reported(composeList, name)) =>
            returned'.error = "Stack not found " \o name]_vars

\* C38: what an uncached getStackList returns holds every scanned project and
\* every reported project but an unmanaged "dockge", and nothing else; a
\* scanned project that is not reported has status CREATED_FILE, a reported
\* one the status statusConvert gives; when the enumeration fails every
\* scanned project has status CREATED_FILE.
C38_ListHoldsScannedAndReported ==
    [][(listing.pc = "updateStackStatuses" /\ listing'.pc = "returned") =>
        LET scanned == listing.scanned
            stackList == listing'.stackList
            rows == composeList.rows
        IN  /\ \A n \in ListNames :
                stackList[n] # absent <=>
                    \/ scanned[n] # absent
                    \/ Reported(composeList, n) /\ n # "dockge"
            /\ \A n \in ListNames :
                (scanned[n] # absent /\ ~Reported(composeList, n)) =>
                    stackList[n] = CREATED_FILE
            /\ \A i \in 1..Len(rows) :
                stackList[rows[i].Name] # absent =>
                    stackList[rows[i].Name] =
                        statusConvert(rows[i].Status, composeStatus)
            /\ composeList.failed => stackList = scanned]_vars

\* ---------------------------------------------------------------------------
\* Two save(true) of one name.

\* save has created or found its directory and writes, or has written.
Writing(st) == st.pc \in {"writeCompose", "writeEnv", "writeOverride", "resolved"}

\* C35: of the two save(true) of one name at most one gets past the creation
\* of the directory, so at most one writes; the one that fails throws "Stack
\* name already exists" or the EEXIST of mkdir, has written nothing, and the
\* step in which it fails leaves the disk as it was. A file is written only by
\* a save that created the directory.
C35_OneSaveCreates ==
    /\ [](/\ ~(Writing(theStack) /\ Writing(otherStack))
          /\ ~(theStack.written # <<>> /\ otherStack.written # <<>>)
          /\ \A st \in {theStack, otherStack} :
                st.pc = "rejected" =>
                    /\ st.written = <<>>
                    /\ st.error \in {"Stack name already exists", mkdir({"dir"}).error})
    /\ [][/\ (theStack.pc # "rejected" /\ theStack'.pc = "rejected") => files' = files
          /\ (otherStack.pc # "rejected" /\ otherStack'.pc = "rejected") => files' = files
          /\ files' # files =>
                \/ theStack' # theStack /\ Writing(theStack')
                \/ otherStack' # otherStack /\ Writing(otherStack')]_vars

\* Both clients found no directory; the first created it and wrote its files,
\* the mkdir of the second failed.
C35_Witness ==
    /\ theStack.pc = "resolved"
    /\ theStack.written # <<>>
    /\ otherStack.pc = "rejected"
    /\ otherStack.error = mkdir({"dir"}).error
    /\ otherStack.written = <<>>

====
